---- MODULE Spec2Model ----
(***************************************************************************)
(* The upload job tracker of the control server (src/unnamed/part_000,     *)
(* lines 425-870: activeUploads, the progress files, loadActiveUploads,    *)
(* POST /api/upload and its child-process handlers) together with the      *)
(* backup script it spawns (lines 871-1478).                                *)
(*                                                                         *)
(* Text is modelled as TLA+ strings, character by character.  The script   *)
(* prints Japanese messages; they are written here in ASCII, one fixed     *)
(* spelling per message, chosen so that no spelling contains another one   *)
(* unless the original does:                                               *)
(*    "appurodochu:"  the uploading line's label   (line 1360)             *)
(*    "appurodo:"     the summary's upload count   (line 1383)             *)
(*    "sofairusu:"    the summary's file count     (line 1382)             *)
(*    "sukippu:"      the summary's skip count     (line 1384)             *)
(*    "sosaizu:"      the summary's total size     (line 1385)             *)
(*    "->"            the arrow of lines 1358 and 1360                     *)
(***************************************************************************)
EXTENDS Integers, Sequences, FiniteSets, TLC

(* ---------------------------- bounds ---------------------------------- *)
\* upload requests served over a whole behaviour (uuids handed out)
MaxJobs == 2
\* restarts of the server process
MaxRestarts == 1
\* 'data' events of one child's stdout
MaxChunks == 2
\* progress writes of one job that are in flight at the same time
MaxInFlight == 1
\* requests whose handler or child is at work at the same time
MaxLive == 1

(* ---------------------------- strings --------------------------------- *)
Char(s, i) == SubSeq(s, i, i)

Min(S) == CHOOSE x \in S : \A y \in S : x <= y

Max(S) == CHOOSE x \in S : \A y \in S : x >= y

\* String.prototype.includes
includes(s, k) ==
    \E p \in 1..(Len(s) - Len(k) + 1) : SubSeq(s, p, p + Len(k) - 1) = k

\* the positions of s where k starts
Occurrences(s, k) ==
    {p \in 1..(Len(s) - Len(k) + 1) : SubSeq(s, p, p + Len(k) - 1) = k}

\* String.prototype.split('\n'): the pieces between the line breaks, the
\* last one being what follows the last line break (possibly empty)
split(s) ==
    LET nl == Occurrences(s, "\n")
        n == Cardinality(nl)
        pos[i \in 0..(n + 1)] ==
            IF i = 0 THEN 0
            ELSE IF i = n + 1 THEN Len(s) + 1
            ELSE CHOOSE p \in nl : Cardinality({q \in nl : q < p}) = i - 1
    IN [i \in 1..(n + 1) |-> SubSeq(s, pos[i - 1] + 1, pos[i] - 1)]

DigitChars == "0123456789"

IsDigit(c) == \E d \in 1..10 : Char(DigitChars, d) = c

DigitVal(c) == (CHOOSE d \in 1..10 : Char(DigitChars, d) = c) - 1

\* \s of a regular expression, within one line
IsSpace(c) == c \in {" ", "\t", "\r"}

\* parseInt of a string of decimal digits
RECURSIVE parseInt(_)
parseInt(s) ==
    IF Len(s) = 0 THEN 0
    ELSE parseInt(SubSeq(s, 1, Len(s) - 1)) * 10 + DigitVal(Char(s, Len(s)))

\* the decimal spelling of a natural number (the shell's $n)
RECURSIVE Decimal(_)
Decimal(n) ==
    IF n < 10 THEN Char(DigitChars, n + 1)
    ELSE Decimal(n \div 10) \o Char(DigitChars, (n % 10) + 1)

LowerChars == "abcdefghijklmnopqrstuvwxyz"

UpperChars == "ABCDEFGHIJKLMNOPQRSTUVWXYZ"

\* tr '[:upper:]' '[:lower:]', and the i flag of a regular expression
RECURSIVE ToLower(_)
ToLower(s) ==
    IF Len(s) = 0 THEN ""
    ELSE LET c == Char(s, 1)
             up == {i \in 1..26 : Char(UpperChars, i) = c}
         IN (IF up = {} THEN c ELSE Char(LowerChars, Min(up)))
                \o ToLower(SubSeq(s, 2, Len(s)))

(* ------------- the stdout handler's patterns (lines 776-797) ----------- *)
\* line.match(/kw\s*(\d+)/): the digits captured by the leftmost match, ""
\* when the pattern does not match
matchNumber(line, kw) ==
    LET n == Len(line)
        skip(p) == Min({q \in p..(n + 1) : q = n + 1 \/ ~IsSpace(Char(line, q))})
        ok(p) == LET q == skip(p + Len(kw)) IN q <= n /\ IsDigit(Char(line, q))
        starts == {p \in Occurrences(line, kw) : ok(p)}
    IN IF starts = {} THEN ""
       ELSE LET q == skip(Min(starts) + Len(kw))
                e == Max({r \in q..n : \A t \in q..r : IsDigit(Char(line, t))})
            IN SubSeq(line, q, e)

\* the alternatives of the file-name pattern of line 780, in its order
FileExts == <<"jpg", "jpeg", "png", "dng", "raf", "cr2", "cr3", "nef", "arw", "orf", "rw2">>

IsSlash(c) == c \in {"/", "\\"}

\* the first alternative of FileExts that matches at position p, "" if none
ExtAt(line, p) ==
    LET hits == {i \in 1..Len(FileExts) :
                    /\ p + Len(FileExts[i]) - 1 <= Len(line)
                    /\ ToLower(SubSeq(line, p, p + Len(FileExts[i]) - 1)) = FileExts[i]}
    IN IF hits = {} THEN "" ELSE FileExts[Min(hits)]

\* line.match(/([^/\\]+\.(?:jpg|...|rw2))/i)[1]: the leftmost match starts at
\* the beginning of the first slash-free stretch that holds ".ext" after at
\* least one character, and being greedy it ends at the last ".ext" of that
\* stretch.  "" when the pattern does not match.
matchFileName(line) ==
    LET n == Len(line)
        dots == {d \in 2..n : /\ Char(line, d) = "."
                              /\ ~IsSlash(Char(line, d - 1))
                              /\ ExtAt(line, d + 1) # ""}
    IN IF dots = {} THEN ""
       ELSE LET d0 == Min(dots)
                s == Max({0} \cup {p \in 1..d0 : IsSlash(Char(line, p))}) + 1
                e == Min({n + 1} \cup {p \in s..n : IsSlash(Char(line, p))}) - 1
                d == Max({x \in dots : x <= e})
            IN SubSeq(line, s, d + Len(ExtAt(line, d + 1)))

(* ------------------- the backup script (lines 871-1478) ---------------- *)
\* the colours of lines 888-892, written as tags
RED == "<0;31m>"

GREEN == "<0;32m>"

YELLOW == "<1;33m>"

BLUE == "<0;34m>"

NC == "<0m>"

HOME_DIR == "/h"

\* the directory of the configuration file (lines 876-877)
CONFIG_DIR == HOME_DIR \o "/.photo-backup-config"

\* the configuration file edit_config writes (lines 1009-1028)
Config ==
    [S3_BUCKET |-> "b", S3_PREFIX_RAW |-> "raw", S3_PREFIX_JPG |-> "jpg",
     RAW_EXTENSIONS |-> "dng,raf,cr2,cr3,nef,arw,orf,rw2",
     JPG_EXTENSIONS |-> "jpg,jpeg,heic,heif",
     EXCLUDE_PATTERNS |-> ".DS_Store,Thumbs.db,.thumbnails",
     LOCAL_IMPORT_BASE |-> "/h/Desktop",
     AWS_PROFILE |-> "default", AWS_REGION |-> "ap-northeast-1"]

\* no configuration file yet, and one whose bucket name was left empty
NoConfig == [none |-> TRUE]

NoBucket == [Config EXCEPT !.S3_BUCKET = ""]

\* IFS=',' read -ra: the fields of a comma separated list (none for "")
Fields(list) ==
    LET cm == Occurrences(list, ",")
        n == Cardinality(cm)
        pos[i \in 0..(n + 1)] ==
            IF i = 0 THEN 0
            ELSE IF i = n + 1 THEN Len(list) + 1
            ELSE CHOOSE p \in cm : Cardinality({q \in cm : q < p}) = i - 1
    IN IF list = "" THEN <<>>
       ELSE [i \in 1..(n + 1) |-> SubSeq(list, pos[i - 1] + 1, pos[i] - 1)]

\* basename, and the text after the last "." (${file_path##*.})
basename(path) ==
    SubSeq(path, Max({0} \cup Occurrences(path, "/")) + 1, Len(path))

Extension(path) ==
    SubSeq(path, Max({0} \cup Occurrences(path, ".")) + 1, Len(path))

\* ${file_path#$source_dir/}
StripPrefix(path, dir) ==
    LET pre == dir \o "/"
    IN IF Len(path) >= Len(pre) /\ SubSeq(path, 1, Len(pre)) = pre
       THEN SubSeq(path, Len(pre) + 1, Len(path))
       ELSE path

\* the order of the characters of a date, as the C locale compares them
DateChars == "-0123456789:"

CharRank(c) == Min({i \in 1..Len(DateChars) : Char(DateChars, i) = c})

\* [[ a < b ]]: a sorts before b
StrLess(a, b) ==
    \E p \in 1..(Len(b)) :
        /\ p <= Len(a) + 1
        /\ SubSeq(a, 1, p - 1) = SubSeq(b, 1, p - 1)
        /\ (p = Len(a) + 1 \/ CharRank(Char(a, p)) < CharRank(Char(b, p)))

\* get_file_type (lines 1159-1171)
get_file_type(file_path, cfg) ==
    LET ext == ToLower(Extension(file_path))
    IN IF includes("," \o cfg.RAW_EXTENSIONS \o ",", "," \o ext \o ",") THEN "raw"
       ELSE IF includes("," \o cfg.JPG_EXTENSIONS \o ",", "," \o ext \o ",") THEN "jpg"
       ELSE "unknown"

\* sed -E 's/^([0-9]{4}):?([0-9]{2}).*$/\1-\2/' (line 1077): a line that
\* does not match is printed as it is
YearDashMonth(date_str) ==
    LET digits(from, to) == Len(date_str) >= to
                            /\ \A p \in from..to : IsDigit(Char(date_str, p))
    IN IF digits(1, 4) /\ Len(date_str) >= 5 /\ Char(date_str, 5) = ":" /\ digits(6, 7)
       THEN SubSeq(date_str, 1, 4) \o "-" \o SubSeq(date_str, 6, 7)
       ELSE IF digits(1, 6)
       THEN SubSeq(date_str, 1, 4) \o "-" \o SubSeq(date_str, 5, 6)
       ELSE date_str

\* get_year_month (lines 1058-1078): the EXIF capture time ("YYYY:MM:DD
\* hh:mm:ss", "" when exiftool gives none), else the modification time, which
\* stat prints as "YYYY:MM:DD hh:mm:ss" on macOS and whose day, "YYYY-MM-DD",
\* is taken elsewhere; sed then keeps the year and the month
get_year_month(f, darwin) ==
    LET date_str == IF f.exif # "" THEN f.exif
                    ELSE IF darwin
                    THEN SubSeq(f.mdate, 1, 4) \o ":" \o SubSeq(f.mdate, 6, 7) \o ":"
                         \o SubSeq(f.mdate, 9, 10) \o " 12:00:00"
                    ELSE f.mdate
    IN YearDashMonth(date_str)

\* is_in_date_range as it would be with bounds that shut out their own day
is_in_date_rangeExclusive(f, START_DATE, END_DATE) ==
    /\ ~(START_DATE # "" /\ ~StrLess(START_DATE, f.mdate))
    /\ ~(END_DATE # "" /\ ~StrLess(f.mdate, END_DATE))

\* is_in_date_range (lines 1081-1107): the modification date against the bounds
is_in_date_range(f, START_DATE, END_DATE) ==
    /\ ~(START_DATE # "" /\ StrLess(f.mdate, START_DATE))
    /\ ~(END_DATE # "" /\ StrLess(END_DATE, f.mdate))

\* grep's basic regular expression pat, from its position i on, matches
\* line from position k to its end: a "." stands for any character, "[...]"
\* for one of the characters listed in it (a "[" that is never closed makes
\* grep fail, which matches nothing), the other characters for themselves
RECURSIVE BreAt(_, _, _, _)
BreAt(pat, i, line, k) ==
    IF i > Len(pat) THEN k = Len(line) + 1
    ELSE IF k > Len(line) THEN FALSE
    ELSE IF Char(pat, i) = "["
    THEN LET close == {j \in (i + 2)..Len(pat) : Char(pat, j) = "]"}
         IN /\ close # {}
            /\ \E x \in (i + 1)..(Min(close) - 1) : Char(pat, x) = Char(line, k)
            /\ BreAt(pat, Min(close) + 1, line, k + 1)
    ELSE /\ Char(pat, i) = "." \/ Char(pat, i) = Char(line, k)
         /\ BreAt(pat, i + 1, line, k + 1)

\* grep -q "pat$" on one ledger line: the pattern matches some end of it
GrepEnd(line, pat) ==
    \E k \in 1..(Len(line) + 1) : BreAt(pat, 1, line, k)

\* is_uploaded as it would be if the ledger were searched for the path alone
is_uploadedAnyHash(ledger, source_dir, f) ==
    \E i \in 1..Len(ledger) :
        includes(ledger[i], "|" \o StripPrefix(f.path, source_dir) \o "|")

\* is_uploaded (lines 1131-1156); ledger is the .uploaded file's lines, <<>>
\* also when the file does not exist
is_uploaded(ledger, source_dir, f) ==
    LET relative_path == StripPrefix(f.path, source_dir)
    IN \E i \in 1..Len(ledger) :
          GrepEnd(ledger[i], "|" \o relative_path \o "|" \o f.hash)

\* a record_uploaded that writes the file anew
record_uploadedAnew(ledger, source_dir, f, now) ==
    <<now \o "|" \o StripPrefix(f.path, source_dir) \o "|" \o f.hash>>

\* a record_uploaded whose write begins where the file ended a line ago
record_uploadedOver(ledger, source_dir, f, now) ==
    IF ledger = <<>>
    THEN <<now \o "|" \o StripPrefix(f.path, source_dir) \o "|" \o f.hash>>
    ELSE [ledger EXCEPT ![Len(ledger)] = now \o "|" \o StripPrefix(f.path, source_dir)
                                             \o "|" \o f.hash]

\* record_uploaded (lines 1110-1128): the line appended to .uploaded; the
\* file is opened with >> (O_APPEND) and the line is one write, which the
\* system puts at the end the file has at that moment
record_uploaded(ledger, source_dir, f, now) ==
    Append(ledger, now \o "|" \o StripPrefix(f.path, source_dir) \o "|" \o f.hash)

\* bc's answer to "scale=2; total_size / 1024 / 1024" (line 1385): each
\* division is cut to two decimals, and bc prints no zero before the point
SizeMB(total_size) ==
    LET a == (total_size * 100) \div 1024
        b == a \div 1024
        frac == (IF b % 100 < 10 THEN "0" ELSE "") \o Decimal(b % 100)
    IN IF b = 0 THEN "0"
       ELSE (IF b \div 100 = 0 THEN "" ELSE Decimal(b \div 100)) \o "." \o frac

info(msg) == BLUE \o "i " \o msg \o NC \o "\n"

warning(msg) == YELLOW \o "! " \o msg \o NC \o "\n"

\* error as it would be without its exit: the message only
errorGoesOn(sh, msg) ==
    [sh EXCEPT !.err = @ \o RED \o "era: " \o msg \o NC \o "\n"]

\* error (lines 930-933): the message on stderr, exit 1
error(sh, msg) ==
    [sh EXCEPT !.err = @ \o RED \o "era: " \o msg \o NC \o "\n",
               !.exited = TRUE, !.code = 1]

\* a ((var++)) that counts nothing
IncrNever(sh, var, arithExit) == sh

\* ((var++)) under set -e: the command's status is 1 when the variable was 0;
\* bash 4.1 and later then leaves the script with that status, bash 3.2 (the
\* /bin/bash of macOS) goes on
Incr(sh, var, arithExit) ==
    IF arithExit /\ sh[var] = 0
    THEN [sh EXCEPT ![var] = 1, !.exited = TRUE, !.code = 1]
    ELSE [sh EXCEPT ![var] = @ + 1]

\* whether the file name holds one of the exclusion patterns (lines 1294-1302)
Excluded(filename, cfg) ==
    LET EXCLUDES == Fields(cfg.EXCLUDE_PATTERNS)
    IN \E i \in 1..Len(EXCLUDES) : includes(filename, EXCLUDES[i])

Put(f, k, v) == [x \in DOMAIN f \cup {k} |-> IF x = k THEN v ELSE f[x]]

\* the lines of the .uploaded file of a directory, none when it has no such file
Ledger(ledgers, dir) == IF dir \in DOMAIN ledgers THEN ledgers[dir] ELSE <<>>

\* a script in which the test of DRY_RUN never succeeds
DryRunIgnored(a) == FALSE

\* [ "$DRY_RUN" = true ] before a transfer or a copy (lines 1356 and 1230)
DryRun(a) == a.DRY_RUN

\* the bucket load_config settles on (lines 973-976): PHOTO_BACKUP_BUCKET of
\* the environment before S3_BUCKET of the configuration file
S3_BUCKET(env) ==
    IF "PHOTO_BACKUP_BUCKET" \in DOMAIN env.environ /\ env.environ.PHOTO_BACKUP_BUCKET # ""
    THEN env.environ.PHOTO_BACKUP_BUCKET
    ELSE env.cfg.S3_BUCKET

\* one pass of the loop of upload_to_s3 (lines 1287-1374) over file f; log
\* keeps the branch the pass took
UploadFile(sh, f, a, env) ==
    LET filename == basename(f.path)
        relative_path == StripPrefix(f.path, a.SOURCE_DIR)
        s1 == Incr(sh, "file_count", env.arithExit)
        skipped(why) == Incr([s1 EXCEPT !.log = Append(@, <<relative_path, why>>)],
                             "skip_count", env.arithExit)
        year_month == get_year_month(f, env.darwin)
        file_type == get_file_type(f.path, env.cfg)
        s3_prefix == IF file_type = "raw" THEN env.cfg.S3_PREFIX_RAW ELSE env.cfg.S3_PREFIX_JPG
        s3_path == "s3://" \o S3_BUCKET(env) \o "/" \o s3_prefix \o "/" \o year_month \o "/" \o filename
        s2 == [s1 EXCEPT !.total_size = @ + f.size,
                         !.log = Append(@, <<relative_path, "upload">>)]
        dry == [s2 EXCEPT !.out = @ \o "[DRY RUN] " \o filename \o " -> " \o s3_path \o "\n"]
        started == [s2 EXCEPT !.out = @ \o "appurodochu: " \o filename \o " -> " \o year_month \o "/\n",
                              !.transfers = @ + 1]
        \* aws s3 cp: its own report on stdout, the object stored
        stored == [started EXCEPT
                      !.out = @ \o "upload: " \o f.path \o " to " \o s3_path \o "\n",
                      !.s3 = Append(@, [file |-> f.path, key |-> s3_path, hash |-> f.hash]),
                      !.ledgers = Put(@, a.SOURCE_DIR,
                                      record_uploaded(Ledger(@, a.SOURCE_DIR),
                                                      a.SOURCE_DIR, f, env.now))]
    IN IF s1.exited THEN s1
       ELSE IF Excluded(filename, env.cfg) THEN skipped("excluded")
       ELSE IF ~is_in_date_range(f, a.START_DATE, a.END_DATE) THEN skipped("out of range")
       ELSE IF is_uploaded(Ledger(s1.ledgers, a.SOURCE_DIR), a.SOURCE_DIR, f)
            THEN skipped("uploaded")
       ELSE IF file_type = "unknown" THEN skipped("unknown")
       ELSE IF DryRun(a) THEN dry
       ELSE IF started.transfers = env.failAt
            THEN error(started, "appurodo shippai: " \o filename)
       ELSE Incr(stored, "upload_count", env.arithExit)

RECURSIVE UploadLoop(_, _, _, _)
UploadLoop(sh, files, a, env) ==
    IF sh.exited \/ files = <<>> THEN sh
    ELSE UploadLoop(UploadFile(sh, Head(files), a, env), Tail(files), a, env)

\* the -iname patterns of the find of lines 1238 and 1375
FindNames ==
    <<"jpg", "jpeg", "heic", "heif", "dng", "raf", "cr2", "cr3", "nef", "arw", "orf", "rw2">>

EndsWith(s, t) == Len(s) >= Len(t) /\ SubSeq(s, Len(s) - Len(t) + 1, Len(s)) = t

\* find dir ( -iname "*.jpg" -o ... ) -type f over the files fs
find(fs, dir) ==
    LET wanted(f) ==
            /\ Len(f.path) > Len(dir) + 1
            /\ SubSeq(f.path, 1, Len(dir) + 1) = dir \o "/"
            /\ \E i \in 1..Len(FindNames) :
                  EndsWith(ToLower(basename(f.path)), "." \o FindNames[i])
    IN SelectSeq(fs, wanted)

\* load_config (lines 950-981): init_config makes the configuration's
\* directory; without a configuration file, or without a bucket, the script ends
load_config(sh, env) ==
    LET made == [sh EXCEPT !.dirs = @ \cup {CONFIG_DIR}]
    IN IF ~env.configured
       THEN [made EXCEPT !.out = @ \o warning("settei fairu ga mitsukarimasen")
                                    \o "shokai settei wo jikko shite kudasai:\n"
                                    \o "  backup-photos.sh --config\n",
                         !.exited = TRUE, !.code = 1]
       ELSE IF S3_BUCKET(env) = ""
       THEN error(made, "S3 baketto ga settei sarete imasen. --config de settei shite kudasai")
       ELSE made

\* upload_to_s3 (lines 1251-1391), started in shell state sh
upload_to_s3(sh, a, env) ==
    LET range == info("hizuke hani: "
                      \o (IF a.START_DATE # "" THEN a.START_DATE ELSE "kaishi shitei nashi")
                      \o " ~ "
                      \o (IF a.END_DATE # "" THEN a.END_DATE ELSE "shuryo shitei nashi"))
        head == info("bakkuappu kaishi")
                \o info("sosu: " \o a.SOURCE_DIR)
                \o info("S3 baketto: s3://" \o S3_BUCKET(env) \o "/")
                \o (IF a.START_DATE # "" \/ a.END_DATE # "" THEN range ELSE "")
                \o (IF a.DRY_RUN THEN warning("dorairanmodo: jissainiwa appurodo shimasen") ELSE "")
                \o "\n"
        loaded == load_config(sh, env)
        done == UploadLoop([loaded EXCEPT !.out = @ \o head], find(sh.fs, a.SOURCE_DIR), a, env)
        summary == "\n====================\nbakkuappu kanryo\n====================\n"
                   \o "sofairusu: " \o Decimal(done.file_count) \o "\n"
                   \o "appurodo: " \o Decimal(done.upload_count) \o "\n"
                   \o "sukippu: " \o Decimal(done.skip_count) \o "\n"
                   \o "sosaizu: " \o SizeMB(done.total_size) \o " MB\n"
                   \o (IF a.DRY_RUN
                       THEN "\n" \o warning("korewa dorairan deshita. jissaini appurodo suruniwa --dry-run wo hazushite kudasai")
                       ELSE "")
    IN IF loaded.exited THEN loaded
       ELSE IF done.exited THEN done
       ELSE [done EXCEPT !.out = @ \o summary, !.exited = TRUE, !.code = 0]

\* set -u: a variable read that neither the script nor its environment has set
unbound(sh, var) ==
    [sh EXCEPT !.err = @ \o "backup-photos.sh: " \o var \o ": unbound variable\n",
               !.exited = TRUE, !.code = 1]

\* sed 's/-//g'
NoDashes(date) ==
    LET keep == {i \in 1..Len(date) : Char(date, i) # "-"}
        nth[i \in 1..Cardinality(keep)] ==
            CHOOSE p \in keep : Cardinality({q \in keep : q < p}) = i - 1
    IN IF keep = {} THEN ""
       ELSE LET RECURSIVE join(_)
                join(i) == IF i > Cardinality(keep) THEN ""
                           ELSE Char(date, nth[i]) \o join(i + 1)
            IN join(1)

\* what a copy that failed leaves at its destination: nothing, or a file cut
\* short
Partial(f, dest_path, env) ==
    [f EXCEPT !.path = dest_path, !.mdate = env.today, !.hash = "", !.size = 0]

\* cp as it would be if the shell went on after its failure
cpGoesOn(sh, f, dest_path, env) ==
    IF sh.copies + 1 = env.failCopyAt
    THEN [sh EXCEPT !.err = @ \o "cp: " \o f.path \o ": Input/output error\n",
                    !.fs = IF env.partial THEN Append(@, Partial(f, dest_path, env)) ELSE @,
                    !.copies = @ + 1]
    ELSE [sh EXCEPT !.fs = Append(@, [f EXCEPT !.path = dest_path, !.mdate = env.today]),
                    !.copies = @ + 1]

\* cp "$file_path" "$dest_path" (line 1233) under set -e (line 873): the copy
\* gets the content of f and the day of the copy as its date; a copy that
\* fails ends the script with cp's status
cp(sh, f, dest_path, env) ==
    IF sh.copies + 1 = env.failCopyAt
    THEN [sh EXCEPT !.err = @ \o "cp: " \o f.path \o ": Input/output error\n",
                    !.fs = IF env.partial THEN Append(@, Partial(f, dest_path, env)) ELSE @,
                    !.exited = TRUE, !.code = 1]
    ELSE [sh EXCEPT !.fs = Append(@, [f EXCEPT !.path = dest_path, !.mdate = env.today]),
                    !.copies = @ + 1]

\* one pass of the loop of import_from_sd (lines 1203-1237) over file f
ImportFile(sh, f, dest_dir, a, env) ==
    LET filename == basename(f.path)
        dest_path == dest_dir \o "/" \o filename
        took(why) == [sh EXCEPT !.log = Append(@, <<f.path, why>>)]
        copied == cp(took("copy"), f, dest_path, env)
    IN IF f.mdate # a.IMPORT_DATE THEN took("other date")
       ELSE IF \E i \in 1..Len(sh.fs) : sh.fs[i].path = dest_path
            THEN Incr(took("exists"), "skipped_count", env.arithExit)
       ELSE IF DryRun(a)
            THEN [took("copy") EXCEPT
                     !.out = @ \o "[DRY RUN] kopi: " \o filename \o " -> " \o dest_dir \o "/\n"]
       ELSE IF copied.exited THEN copied
       ELSE Incr(copied, "imported_count", env.arithExit)

RECURSIVE ImportLoop(_, _, _, _, _)
ImportLoop(sh, files, dest_dir, a, env) ==
    IF sh.exited \/ files = <<>> THEN sh
    ELSE ImportLoop(ImportFile(sh, Head(files), dest_dir, a, env), Tail(files),
                    dest_dir, a, env)

success(msg) == GREEN \o "v " \o msg \o NC \o "\n"

\* import_from_sd (lines 1174-1248): load_config has not run when the
\* destination is built, so LOCAL_IMPORT_BASE, RAW_EXTENSIONS and
\* JPG_EXTENSIONS are those of the environment the script was started in
import_from_sd(sh, a, env) ==
    LET head == [sh EXCEPT !.out = @ \o info("SD kado kara shashin wo torikomichu")
                                     \o info("sosu: " \o a.SD_PATH)
                                     \o info("taishobi: " \o a.IMPORT_DATE)]
        dest_dir == env.environ.LOCAL_IMPORT_BASE \o "/" \o NoDashes(a.IMPORT_DATE)
        made == [head EXCEPT !.dirs = @ \cup {dest_dir}]
        done == ImportLoop(made, find(made.fs, a.SD_PATH), dest_dir, a, env)
        told == [done EXCEPT !.out = @ \o "\n" \o success("torikomi kanryo: "
                                 \o Decimal(done.imported_count) \o " fairu (sukippu: "
                                 \o Decimal(done.skipped_count) \o ")")]
    IN IF "LOCAL_IMPORT_BASE" \notin DOMAIN env.environ
       THEN unbound(head, "LOCAL_IMPORT_BASE")
       ELSE IF "RAW_EXTENSIONS" \notin DOMAIN env.environ
       THEN unbound(made, "RAW_EXTENSIONS")
       ELSE IF "JPG_EXTENSIONS" \notin DOMAIN env.environ
       THEN unbound(made, "JPG_EXTENSIONS")
       ELSE IF done.exited THEN done
       ELSE IF done.imported_count > 0 \/ a.DRY_RUN
       THEN upload_to_s3(told, [a EXCEPT !.SOURCE_DIR = dest_dir], env)
       ELSE [told EXCEPT !.exited = TRUE, !.code = 0]

(* The file system the server's script runs on: the directories that exist   *)
(* and the files in them, in the order find lists them.                      *)
\* the number of files of the large directory
BigCount == 10

TripFiles ==
    << [path |-> "/h/Pictures/trip/a.jpg", mdate |-> "2024-12-24", exif |-> "",
        hash |-> "c0ffee", size |-> 2097152],
       [path |-> "/h/Pictures/trip/b.CR2", mdate |-> "2024-12-25",
        exif |-> "2024:11:30 10:00:00", hash |-> "decade", size |-> 1048576] >>

BigFiles ==
    [i \in 1..BigCount |->
        [path |-> "/h/Desktop/big/p" \o Decimal(i) \o ".jpg", mdate |-> "2024-12-25",
         exif |-> "", hash |-> "f" \o Decimal(i), size |-> 1024]]

FileSystem == TripFiles \o BigFiles

Directories ==
    {"/h", "/h/Desktop", "/h/Pictures", "/h/Pictures/trip", "/h/Pictures/empty",
     "/h/Desktop/big", CONFIG_DIR}

\* the day the script runs on (date +"%Y-%m-%d")
Today == "2025-01-05"

\* an environment without the configuration's variables, and no ledger yet
NoEnviron == [k \in {} |-> ""]

NoLedgers == [d \in {} |-> <<>>]

\* the shell's state when the script starts: what it has printed, its
\* counters, and the files, directories, ledgers and bucket it works on
ShellStart(env) ==
    [out |-> "", err |-> "", exited |-> FALSE, code |-> 0,
     file_count |-> 0, skip_count |-> 0, upload_count |-> 0, total_size |-> 0,
     imported_count |-> 0, skipped_count |-> 0, copies |-> 0,
     transfers |-> 0, s3 |-> <<>>, ledgers |-> env.ledgers,
     fs |-> env.fs, dirs |-> env.dirs, log |-> <<>>]

\* the script run with "--source SOURCE_DIR [--start d] [--end d] [--dry-run]"
\* or with "--import SD_PATH [--import-date d] [--dry-run]" (lines 1393-1478):
\* what it has written and done when it exits
backup_photos(a, env) ==
    LET sh == ShellStart(env)
        dated == [a EXCEPT !.IMPORT_DATE = IF @ = "" THEN env.today ELSE @]
    IN IF a.IMPORT_MODE /\ a.SD_PATH = ""
       THEN error(sh, "SD kado no pasu wo shitei shite kudasai")
       ELSE IF a.IMPORT_MODE /\ a.SD_PATH \notin sh.dirs
       THEN error(sh, "direkutori ga sonzai shimasen: " \o a.SD_PATH)
       ELSE IF ~a.IMPORT_MODE /\ a.SOURCE_DIR = ""
       THEN error(sh, "sosu direkutori wo shitei shite kudasai (-s opushon)")
       ELSE IF ~a.IMPORT_MODE /\ a.SOURCE_DIR \notin sh.dirs
       THEN error(sh, "direkutori ga sonzai shimasen: " \o a.SOURCE_DIR)
       ELSE IF ~env.awsOk
       THEN error(sh, "AWS ninsho ni shippai shimashita. aws configure wo jikko shite kudasai")
       ELSE IF a.IMPORT_MODE THEN import_from_sd(sh, dated, env)
       ELSE upload_to_s3(sh, a, env)

(* --------------------- the server (lines 425-870) ---------------------- *)
\* JavaScript's undefined, for the two fields of a request that may be absent
undefined == "<undefined>"

\* what loadUploadProgress returns when the file cannot be read or parsed
NULL == [null |-> TRUE]

\* a progress file whose bytes are not one JSON document (a write cut short,
\* or two writes over one another)
Torn == [torn |-> TRUE]

\* the exit code 'close' reports for a child ended by a signal: JavaScript's
\* null, written as a number that is no exit status
nullCode == -1

Drop(f, k) == [x \in DOMAIN f \ {k} |-> f[x]]

\* a field of a request body, undefined when the body does not have it
Field(body, k) == IF k \in DOMAIN body THEN body[k] ELSE undefined

\* path.isAbsolute, and the search of lines 707-729 for a relative name
isAbsolute(p) == Len(p) > 0 /\ Char(p, 1) = "/"

commonPaths(sourcePath) ==
    << HOME_DIR \o "/Desktop/" \o sourcePath,
       HOME_DIR \o "/Pictures/" \o sourcePath,
       HOME_DIR \o "/Downloads/" \o sourcePath,
       "/Volumes/" \o sourcePath,
       HOME_DIR \o "/" \o sourcePath >>

resolveFullPath(sourcePath) ==
    LET found == {i \in 1..5 : commonPaths(sourcePath)[i] \in Directories}
    IN IF isAbsolute(sourcePath) \/ found = {} THEN sourcePath
       ELSE commonPaths(sourcePath)[Min(found)]

\* new Date().toISOString(): the reading of the clock
toISOString(t) == "T" \o Decimal(t)

\* the record POST /api/upload starts with (lines 732-743)
NewUploadData(body, t) ==
    [status |-> "running",
     sourcePath |-> resolveFullPath(body.sourcePath),
     startDate |-> Field(body, "startDate"),
     endDate |-> Field(body, "endDate"),
     dryRun |-> IF "dryRun" \in DOMAIN body THEN body.dryRun ELSE FALSE,
     startTime |-> toISOString(t),
     output |-> "", error |-> "", currentFile |-> "",
     progress |-> [total |-> 0, completed |-> 0, skipped |-> 0]]

\* a JavaScript value that counts as true in `if (value)`: not undefined,
\* not the empty string
Truthy(value) == value \notin {undefined, ""}

\* the arguments of spawn as they would be if the end date were left out
ArgvWithoutEnd(uploadData) ==
    <<"--source", uploadData.sourcePath>>
    \o (IF Truthy(uploadData.startDate) THEN <<"--start", uploadData.startDate>> ELSE <<>>)
    \o (IF uploadData.dryRun THEN <<"--dry-run">> ELSE <<>>)

\* the arguments of spawn (lines 756-768)
Argv(uploadData) ==
    <<"--source", uploadData.sourcePath>>
    \o (IF Truthy(uploadData.startDate) THEN <<"--start", uploadData.startDate>> ELSE <<>>)
    \o (IF Truthy(uploadData.endDate) THEN <<"--end", uploadData.endDate>> ELSE <<>>)
    \o (IF uploadData.dryRun THEN <<"--dry-run">> ELSE <<>>)

\* the script's variables before its arguments are read (lines 877-883)
NoArgs ==
    [SOURCE_DIR |-> "", START_DATE |-> "", END_DATE |-> "", DRY_RUN |-> FALSE,
     IMPORT_MODE |-> FALSE, SD_PATH |-> "", IMPORT_DATE |-> ""]

\* the argument loop (lines 1394-1435): the variables it sets, and what ends
\* it before the last argument ("" when nothing does): an option that is not
\* known, --help, --config, or an option whose value is missing (set -u).
\* VERBOSE adds lines to the output only and is not kept.
RECURSIVE ParseArgs(_, _)
ParseArgs(argv, a) ==
    LET o == Head(argv)
        value(var) == IF Len(argv) < 2 THEN [args |-> a, stop |-> "unbound"]
                      ELSE ParseArgs(SubSeq(argv, 3, Len(argv)), [a EXCEPT ![var] = argv[2]])
    IN IF argv = <<>> THEN [args |-> a, stop |-> ""]
       ELSE IF o \in {"-s", "--source"} THEN value("SOURCE_DIR")
       ELSE IF o \in {"-i", "--import"}
            THEN IF Len(argv) < 2 THEN [args |-> a, stop |-> "unbound"]
                 ELSE ParseArgs(SubSeq(argv, 3, Len(argv)),
                                [a EXCEPT !.IMPORT_MODE = TRUE, !.SD_PATH = argv[2]])
       ELSE IF o = "--import-date" THEN value("IMPORT_DATE")
       ELSE IF o = "--start" THEN value("START_DATE")
       ELSE IF o = "--end" THEN value("END_DATE")
       ELSE IF o \in {"-d", "--dry-run"} THEN ParseArgs(Tail(argv), [a EXCEPT !.DRY_RUN = TRUE])
       ELSE IF o \in {"-v", "--verbose"} THEN ParseArgs(Tail(argv), a)
       ELSE IF o \in {"-c", "--config"} THEN [args |-> a, stop |-> "edit_config"]
       ELSE IF o \in {"-h", "--help"} THEN [args |-> a, stop |-> "usage"]
       ELSE [args |-> a, stop |-> o]

\* the arguments of the spawned script (lines 756-768) as the script's
\* argument loop (lines 1394-1435) reads them
ScriptArgs(uploadData) == ParseArgs(Argv(uploadData), NoArgs).args

\* JSON.stringify: a field holding undefined is left out
JSONstringify(data) ==
    LET gone == {k \in DOMAIN data \cap {"startDate", "endDate"} : data[k] = undefined}
    IN [k \in DOMAIN data \ gone |-> data[k]]

\* JSON.parse of a document JSONstringify wrote
JSONparse(doc) == doc

\* reading a field of an object that may not have it
Get(data, k) == IF k \in DOMAIN data THEN data[k] ELSE undefined

\* the stdout handler's work on one line (lines 779-796)
ParseLine(uploadData, line) ==
    LET file == matchFileName(line)
        total == matchNumber(line, "sofairusu:")
        completed == matchNumber(line, "appurodo:")
        skipped == matchNumber(line, "sukippu:")
        r1 == IF (includes(line, "appurodochu:") \/ includes(line, "[DRY RUN]")) /\ file # ""
              THEN [uploadData EXCEPT !.currentFile = file] ELSE uploadData
        r2 == IF includes(line, "sofairusu:") /\ total # ""
              THEN [r1 EXCEPT !.progress.total = parseInt(total)] ELSE r1
        r3 == IF includes(line, "appurodo:") /\ completed # ""
              THEN [r2 EXCEPT !.progress.completed = parseInt(completed)] ELSE r2
    IN IF includes(line, "sukippu:") /\ skipped # ""
       THEN [r3 EXCEPT !.progress.skipped = parseInt(skipped)] ELSE r3

RECURSIVE ParseLines(_, _)
ParseLines(uploadData, lines) ==
    IF lines = <<>> THEN uploadData
    ELSE ParseLines(ParseLine(uploadData, Head(lines)), Tail(lines))

\* a handler that counts each chunk by itself
OnStdoutFresh(uploadData, chunk) ==
    ParseLines([uploadData EXCEPT !.output = @ \o chunk,
                                  !.progress = [total |-> 0, completed |-> 0, skipped |-> 0]],
               split(chunk))

\* childProcess.stdout.on('data') up to the save (lines 772-797)
OnStdout(uploadData, chunk) ==
    ParseLines([uploadData EXCEPT !.output = @ \o chunk], split(chunk))

\* the close handler taking every end without a code for a success
OnCloseLenient(uploadData_, code, t) ==
    [k \in DOMAIN uploadData_ \cup {"endTime", "exitCode"} |->
        IF k = "status" THEN (IF code \in {0, nullCode} THEN "completed" ELSE "failed")
        ELSE IF k = "endTime" THEN toISOString(t)
        ELSE IF k = "exitCode" THEN code
        ELSE uploadData_[k]]

\* childProcess.on('close') up to the save (lines 808-810)
OnClose(uploadData, code, t) ==
    [k \in DOMAIN uploadData \cup {"endTime", "exitCode"} |->
        IF k = "status" THEN (IF code = 0 THEN "completed" ELSE "failed")
        ELSE IF k = "endTime" THEN toISOString(t)
        ELSE IF k = "exitCode" THEN code
        ELSE uploadData[k]]

\* a pass that starts the record's progress afresh
MarkInterruptedFresh(data_) ==
    [data_ EXCEPT !.status = "interrupted", !.currentFile = ""]

\* loadActiveUploads' change of a record it found running (line 484)
MarkInterrupted(data) == [data EXCEPT !.status = "interrupted"]

(* ------------- GET /api/uploads, GET /api/uploads/:id (670-693) -------- *)
\* no GET answered yet
NoResponse == [route |-> "none"]

\* data without the id
WithoutId(id, data_) == data_

\* { id, ...data } (lines 673-676, 692): the id, then the record's own fields
WithId(id, data_) ==
    [k \in {"id"} \cup DOMAIN data_ |-> IF k \in DOMAIN data_ THEN data_[k] ELSE id]

(* --------------- the page's forms (src/web/src/hooks) ------------------ *)
\* the settings form's events and the upload form's events of a behaviour
MaxSettingsEvents == 5
MaxFormEvents == 4

\* useSettings.ts lines 5-10
STORAGE_CLASSES == {"STANDARD", "STANDARD_IA", "GLACIER", "DEEP_ARCHIVE"}

\* the config useState starts with when nothing is cached (useSettings.ts
\* lines 50-57); the keys the form only carries along are left out
DefaultConfig == [S3_BUCKET |-> "", S3_STORAGE_CLASS |-> "DEEP_ARCHIVE"]

\* what GET /api/config answers (part_000 lines 550-569)
Answer(bucket_, class) ==
    [configured |-> TRUE, S3_BUCKET |-> bucket_, S3_STORAGE_CLASS |-> class]

NotConfigured == [configured |-> FALSE]

CurrentConfigs ==
    {NotConfigured, Answer("b", "DEEP_ARCHIVE"), Answer("b", "STANDARD")}

\* the hook as it is mounted: the query has no data yet (currentConfig?.configured
\* is as false as with an answer that is not configured)
SettingsStart ==
    [config |-> DefaultConfig, showWarning |-> FALSE, currentConfig |-> NotConfigured,
     calls |-> <<>>, last |-> "useSettings", n |-> 0]

\* the effect of useSettings.ts lines 70-86, run after every render in which
\* currentConfig or config is another one: JSON.stringify tells two configs
\* apart as the records differ
ConfigEffect(s) ==
    IF s.currentConfig.configured /\ s.config # s.currentConfig
    THEN [s EXCEPT !.config = s.currentConfig]
    ELSE s

\* a test that finds no configuration to be of the DEEP_ARCHIVE class
isDeepArchiveNever(config_) == FALSE

\* the test of handleSave (useSettings.ts line 114)
isDeepArchive(config_) == config_.S3_STORAGE_CLASS = "DEEP_ARCHIVE"

\* { ...prev, [key]: value } (useSettings.ts line 127)
Spread(prev_, key, value) ==
    [k \in DOMAIN prev_ \cup {key} |-> IF k = key THEN value ELSE prev_[k]]

\* dayjs(text).format('YYYY-MM-DD') (useUpload.ts lines 39, 42, 86, 89): the
\* day of a text that is a date, the words "Invalid Date" of any other
dayjsFormat(text) ==
    IF Len(text) >= 10 /\ Char(text, 5) = "-" /\ Char(text, 8) = "-"
    THEN SubSeq(text, 1, 10) ELSE "Invalid Date"

\* webkitRelativePath.split('/') (useUpload.ts line 67)
Segments(path) ==
    LET sl == Occurrences(path, "/")
        n == Cardinality(sl)
        pos[i \in 0..(n + 1)] ==
            IF i = 0 THEN 0
            ELSE IF i = n + 1 THEN Len(path) + 1
            ELSE CHOOSE p \in sl : Cardinality({q \in sl : q < p}) = i - 1
    IN [i \in 1..(n + 1) |-> SubSeq(path, pos[i - 1] + 1, pos[i] - 1)]

\* a record as GET /api/uploads lists it (part_000 lines 671-681)
Listed(id, status, body) ==
    ("id" :> id) @@ JSONstringify([NewUploadData(body, 0) EXCEPT !.status = status])

\* the answers of GET /api/uploads the page gets
UploadLists ==
    { <<>>,
      << Listed(1, "completed", [sourcePath |-> "/h/Pictures/trip", dryRun |-> FALSE]) >>,
      << Listed(1, "running", [sourcePath |-> "/h/Pictures/trip", dryRun |-> FALSE]) >>,
      << Listed(1, "completed", [sourcePath |-> "/h/Pictures/trip", dryRun |-> TRUE]),
         Listed(2, "interrupted", [sourcePath |-> "/h/Pictures/trip", dryRun |-> TRUE,
                                   startDate |-> "2024-12-25"]) >>,
      << Listed(2, "running", [sourcePath |-> "/none", endDate |-> "2024-12-31"]) >> }

\* the names of the first file of the picked directory (webkitRelativePath)
RelativePaths == {"trip/p-1.jpg", "p-1.jpg"}

\* the days the date pickers are set to (null: "")
PickedDates == {"", "2024-12-25"}

\* the hook as it is mounted (useUpload.ts lines 7-11): the list query has no
\* data yet, which the effect treats as a list without records
FormStart ==
    [selectedPath |-> "", startDate |-> "", endDate |-> "", dryRun |-> TRUE,
     activeUploads |-> <<>>, dryRunBy |-> "useState", requests |-> <<>>,
     last |-> "useUpload", n |-> 0]

\* activeUploads.find(...) of useUpload.ts lines 32-34: the place of the first
\* record that is running or interrupted, 0 when there is none
runningUpload(f) ==
    LET found == {i \in DOMAIN f.activeUploads :
                     f.activeUploads[i].status \in {"running", "interrupted"}}
    IN IF found = {} THEN 0 ELSE Min(found)

\* the effect of useUpload.ts lines 30-47, run after every render in which
\* activeUploads or activeUploadId is another one: the form it leaves
RestoreEffect(f, id) ==
    IF runningUpload(f) # 0 /\ id = 0
    THEN LET r == f.activeUploads[runningUpload(f)]
         IN [f EXCEPT !.selectedPath = r.sourcePath,
                      !.startDate = IF "startDate" \in DOMAIN r /\ r.startDate # ""
                                    THEN dayjsFormat(r.startDate) ELSE @,
                      !.endDate = IF "endDate" \in DOMAIN r /\ r.endDate # ""
                                  THEN dayjsFormat(r.endDate) ELSE @,
                      !.dryRun = r.dryRun,
                      !.dryRunBy = "useEffect"]
    ELSE f

\* and the activeUploadId it leaves
RestoredId(f, id) ==
    IF runningUpload(f) # 0 /\ id = 0 THEN f.activeUploads[runningUpload(f)].id ELSE id

\* the params handleUpload builds (useUpload.ts lines 80-90)
Params(f) ==
    LET dates == {k \in {"startDate", "endDate"} : f[k] # ""}
    IN [k \in {"sourcePath", "dryRun"} \cup dates |->
           IF k = "sourcePath" THEN f.selectedPath
           ELSE IF k = "dryRun" THEN f.dryRun
           ELSE f[k]]

(* ------------------------------ state ---------------------------------- *)
VARIABLES
    arithExit,      \* the installation's bash leaves the script at a ((..)) of status 1
    dirExists,      \* PROGRESS_DIR exists
    disk,           \* the progress files: upload id -> content
    writes,         \* the stdout handler's saves still in flight: [id, doc]
    activeUploads,  \* the Map: upload id -> which object it holds
    uploadData,     \* the uploadData object of each request of this process
    data,           \* the objects loadActiveUploads put into the Map
    job,            \* where each request of this process stands: [pc, doc]
    proc,           \* the children: what they have still to write, their exit code
    boot,           \* where the listen callback stands
    nextId,         \* the next uuid
    now,            \* the clock
    restarts,       \* server processes ended so far
    activeUploadId, \* the page's activeUploadId (0: null)
    console,        \* the ids whose stop failed, as the page's console has them
    config,         \* the configuration file of the installation
    exported,       \* the variables of the environment the script is started in
    photos,         \* the files, in the order find lists them
    folders,        \* the directories
    dotUploaded,    \* the .uploaded files: directory -> lines
    bucket,         \* the transfers made to S3, in their order
    runs,           \* the script's runs from a terminal so far
    run,            \* the last of them: its arguments, what it found, how it ended
    prev,           \* the one before it
    walk,           \* the scripts at work at the same time, each where it stands
    settings,       \* the settings form: useSettings' state, the saveConfig calls
    form,           \* the upload form: useUpload's state, the requests it sent
    response        \* the answer to the last GET of the uploads routes

serverVars == <<dirExists, disk, writes, activeUploads, uploadData, data,
                job, proc, boot, nextId, now, restarts, activeUploadId, console>>

scriptVars == <<config, exported, photos, folders, dotUploaded, bucket, runs, run, prev,
                walk>>

pageVars == <<settings, form, response>>

vars == <<arithExit, serverVars, scriptVars, pageVars>>

\* no run yet
NoRun == [none |-> TRUE]

\* the installation the server runs on: the script is run by the server only
ServerInstallation ==
    /\ config = Config
    /\ exported = NoEnviron
    /\ photos = FileSystem
    /\ folders = Directories
    /\ dotUploaded = NoLedgers
    /\ bucket = <<>>
    /\ runs = 0
    /\ run = NoRun
    /\ prev = NoRun
    /\ walk = <<>>
    /\ settings = SettingsStart
    /\ form = FormStart
    /\ response = NoResponse

Ids == 1..MaxJobs

\* the bodies of POST /api/upload the clients send
Requests ==
    { [sourcePath |-> "trip", startDate |-> "2024-12-25"],
      [sourcePath |-> "/none", endDate |-> "2024-12-31", dryRun |-> TRUE] }

\* the bodies sent where the output is cut anywhere
SplitRequests ==
    { [sourcePath |-> "/h/Pictures/trip", dryRun |-> FALSE],
      [sourcePath |-> "/h/Pictures/trip", endDate |-> "2024-12-24", dryRun |-> TRUE] }

\* which transfer of a run fails (0: none)
FailAts == {0, 1}

\* the object the Map holds for id: activeUploads.get(id)
get(id) == IF activeUploads[id] = "uploadData" THEN uploadData[id] ELSE data[id]

\* GET /api/uploads: the Map's records, each with its id (lines 671-681)
list == [id \in DOMAIN activeUploads |-> get(id)]

\* the writes of id's progress file that are in flight
InFlight(id) ==
    Cardinality({w \in writes : w.id = id})
    + (IF id \in DOMAIN job /\ job[id].pc \in {"saving", "closing"} THEN 1 ELSE 0)
    + (IF boot.pc = "save" /\ boot.uploadId = id THEN 1 ELSE 0)

\* saveUploadProgress (lines 454-461) coming to its end: the file holds the
\* document; when another write of the same file is under way the bytes of
\* the two may be mixed; when the directory is missing the write fails and
\* the error is only logged
Saved(id, doc) ==
    IF ~dirExists THEN {disk}
    ELSE {Put(disk, id, c) : c \in {doc} \cup (IF InFlight(id) > 1 THEN {Torn} ELSE {})}

\* loadUploadProgress (lines 464-472): the parsed file, null when it is
\* missing or is not a JSON document (as it may be while it is written)
loadUploadProgress(id) ==
    (IF id \in DOMAIN disk /\ disk[id] # Torn THEN {JSONparse(disk[id])} ELSE {NULL})
    \cup (IF InFlight(id) > 0 THEN {NULL} ELSE {})

BootStart == [pc |-> "init", files |-> {}, uploadId |-> 0, data |-> NULL]

Init ==
    /\ arithExit \in BOOLEAN
    /\ dirExists = FALSE
    /\ disk = <<>>
    /\ writes = {}
    /\ activeUploads = <<>>
    /\ uploadData = <<>>
    /\ data = <<>>
    /\ job = <<>>
    /\ proc = <<>>
    /\ boot = BootStart
    /\ nextId = 1
    /\ now = 0
    /\ restarts = 0
    /\ activeUploadId = 0
    /\ console = {}
    /\ ServerInstallation

(* --------------------- the listen callback (866-870) ------------------- *)
\* initProgressDir (lines 445-451): the directory is made unless mkdir
\* fails, which is only logged
initProgressDir ==
    /\ boot.pc = "init"
    /\ \E made \in BOOLEAN : dirExists' = (dirExists \/ made)
    /\ boot' = [boot EXCEPT !.pc = "readdir"]
    /\ UNCHANGED <<arithExit, disk, writes, activeUploads, uploadData, data, job,
                   proc, nextId, now, restarts, activeUploadId, console>>
    /\ UNCHANGED <<scriptVars, pageVars>>

\* loadActiveUploads: readdir (line 477), the .json files taken by their
\* ids; without the directory readdir throws and the pass is over (line 490)
readdir ==
    /\ boot.pc = "readdir"
    /\ boot' = [boot EXCEPT !.pc = "loop", !.files = IF dirExists THEN DOMAIN disk ELSE {}]
    /\ UNCHANGED <<arithExit, dirExists, disk, writes, activeUploads, uploadData,
                   data, job, proc, nextId, now, restarts, activeUploadId, console>>
    /\ UNCHANGED <<scriptVars, pageVars>>

\* loadActiveUploads: one file read (line 481); a file that is not a running
\* record is passed over (line 482)
loadRead(id) ==
    /\ boot.pc = "loop"
    /\ id \in boot.files
    /\ \E d \in loadUploadProgress(id) :
          boot' = IF d # NULL /\ d.status = "running"
                  THEN [pc |-> "loaded", files |-> boot.files \ {id}, uploadId |-> id, data |-> d]
                  ELSE [boot EXCEPT !.files = @ \ {id}]
    /\ UNCHANGED <<arithExit, dirExists, disk, writes, activeUploads, uploadData,
                   data, job, proc, nextId, now, restarts, activeUploadId, console>>
    /\ UNCHANGED <<scriptVars, pageVars>>

\* loadActiveUploads: the running record marked and put into the Map, its
\* save begun (lines 484-486)
loadMark ==
    /\ boot.pc = "loaded"
    /\ data' = Put(data, boot.uploadId, MarkInterrupted(boot.data))
    /\ activeUploads' = Put(activeUploads, boot.uploadId, "data")
    /\ boot' = [boot EXCEPT !.pc = "save", !.data = JSONstringify(MarkInterrupted(boot.data))]
    /\ UNCHANGED <<arithExit, dirExists, disk, writes, uploadData, job, proc,
                   nextId, now, restarts, activeUploadId, console>>
    /\ UNCHANGED <<scriptVars, pageVars>>

\* loadActiveUploads: the save of line 486 done, the loop goes on
loadSaved ==
    /\ boot.pc = "save"
    /\ disk' \in Saved(boot.uploadId, boot.data)
    /\ boot' = [boot EXCEPT !.pc = "loop", !.uploadId = 0, !.data = NULL]
    /\ UNCHANGED <<arithExit, dirExists, writes, activeUploads, uploadData, data,
                   job, proc, nextId, now, restarts, activeUploadId, console>>
    /\ UNCHANGED <<scriptVars, pageVars>>

(* ----------------------- POST /api/upload (696-826) -------------------- *)
\* the requests whose handler or child is at work
Live == {id \in DOMAIN job : job[id].pc \in {"saving", "saved", "running", "closing"}}

\* the handler up to its first await on the save: the record made, put into
\* the Map, its document handed to saveUploadProgress (lines 697-746); a body
\* without sourcePath is answered 400 and nothing is done (lines 699-701)
PostUpload(body, maxJobs, maxLive) ==
    /\ nextId <= maxJobs
    /\ Cardinality(Live) < maxLive
    /\ Field(body, "sourcePath") \notin {undefined, ""}
    /\ uploadData' = Put(uploadData, nextId, NewUploadData(body, now))
    /\ activeUploads' = Put(activeUploads, nextId, "uploadData")
    /\ job' = Put(job, nextId, [pc |-> "saving", doc |-> JSONstringify(NewUploadData(body, now))])
    /\ nextId' = nextId + 1
    /\ now' = now + 1
    /\ UNCHANGED <<arithExit, dirExists, disk, writes, data, proc, boot, restarts,
                   activeUploadId, console>>
    /\ UNCHANGED <<scriptVars, pageVars>>

\* the save of line 746 comes to its end
InitialSaved(id) ==
    /\ id \in DOMAIN job /\ job[id].pc = "saving"
    /\ disk' \in Saved(id, job[id].doc)
    /\ job' = [job EXCEPT ![id] = [pc |-> "saved", doc |-> NULL]]
    /\ UNCHANGED <<arithExit, dirExists, writes, activeUploads, uploadData, data,
                   proc, boot, nextId, now, restarts, activeUploadId, console>>
    /\ UNCHANGED <<scriptVars, pageVars>>

\* the script run as a child: what it will write and how it will end
Child(id, failAt) ==
    LET sh == backup_photos(ScriptArgs(uploadData[id]),
                            [arithExit |-> arithExit, failAt |-> failAt,
                             configured |-> config # NoConfig, awsOk |-> TRUE,
                             now |-> toISOString(now), today |-> Today,
                             cfg |-> config, environ |-> exported,
                             fs |-> photos, dirs |-> folders,
                             ledgers |-> dotUploaded,
                             failCopyAt |-> 0, partial |-> FALSE, darwin |-> TRUE])
    IN [out |-> sh.out, err |-> sh.err, code |-> sh.code, chunks |-> 0,
        upload_count |-> sh.upload_count, argv |-> Argv(uploadData[id])]

\* the answer sent and the script spawned (lines 749-770)
Respond(id, failAts) ==
    /\ id \in DOMAIN job /\ job[id].pc = "saved"
    /\ \E failAt \in failAts : proc' = Put(proc, id, Child(id, failAt))
    /\ job' = [job EXCEPT ![id].pc = "running"]
    /\ UNCHANGED <<arithExit, dirExists, disk, writes, activeUploads, uploadData,
                   data, boot, nextId, now, restarts, activeUploadId, console>>
    /\ UNCHANGED <<scriptVars, pageVars>>

\* the line of out that ends before position k
LineBefore(out, k) ==
    LET starts == {i \in 1..k : i = 1 \/ Char(out, i - 1) = "\n"}
    IN SubSeq(out, Max(starts), k - 1)

\* where the child's pending output may be cut into a chunk: anywhere, or
\* only where the script stops writing, at its end and where it waits for a
\* transfer it has just announced (lines 1356-1359)
Cuts(out, anywhere) ==
    {k \in 1..Len(out) :
        \/ anywhere
        \/ k = Len(out)
        \/ Char(out, k) = "\n" /\ includes(LineBefore(out, k), "appurodochu:")}

\* childProcess.stdout.on('data') (lines 772-801): the chunk applied to the
\* record, a save of the record begun and not awaited
StdoutData(id, anywhere) ==
    /\ id \in DOMAIN job /\ job[id].pc = "running"
    /\ proc[id].out # ""
    /\ Cardinality({w \in writes : w.id = id}) < MaxInFlight
    /\ \E k \in Cuts(proc[id].out, anywhere) :
          /\ proc[id].chunks + 1 = MaxChunks => k = Len(proc[id].out)
          /\ LET chunk == SubSeq(proc[id].out, 1, k)
                 after == OnStdout(uploadData[id], chunk)
             IN /\ uploadData' = [uploadData EXCEPT ![id] = after]
                /\ writes' = writes \cup {[id |-> id, doc |-> JSONstringify(after)]}
                /\ proc' = [proc EXCEPT ![id].out = SubSeq(@, k + 1, Len(@)),
                                        ![id].chunks = @ + 1]
    /\ UNCHANGED <<arithExit, dirExists, disk, activeUploads, data, job, boot,
                   nextId, now, restarts, activeUploadId, console>>
    /\ UNCHANGED <<scriptVars, pageVars>>

\* childProcess.stderr.on('data') (lines 803-805)
StderrData(id) ==
    /\ id \in DOMAIN job /\ job[id].pc = "running"
    /\ proc[id].err # ""
    /\ uploadData' = [uploadData EXCEPT ![id].error = @ \o proc[id].err]
    /\ proc' = [proc EXCEPT ![id].err = ""]
    /\ UNCHANGED <<arithExit, dirExists, disk, writes, activeUploads, data, job,
                   boot, nextId, now, restarts, activeUploadId, console>>
    /\ UNCHANGED <<scriptVars, pageVars>>

\* the child killed by a signal before it has written all it would: nothing
\* more is written and there is no exit code
ChildKilled(id) ==
    /\ id \in DOMAIN job /\ job[id].pc = "running"
    /\ proc[id].out # "" \/ proc[id].err # ""
    /\ proc' = [proc EXCEPT ![id].out = "", ![id].err = "", ![id].code = nullCode]
    /\ UNCHANGED <<arithExit, dirExists, disk, writes, activeUploads, uploadData,
                   data, job, boot, nextId, now, restarts, activeUploadId, console>>
    /\ UNCHANGED <<scriptVars, pageVars>>

\* childProcess.on('close') up to its await (lines 807-813): the child has
\* ended and its streams are read to their ends
Close(id) ==
    /\ id \in DOMAIN job /\ job[id].pc = "running"
    /\ proc[id].out = "" /\ proc[id].err = ""
    /\ uploadData' = [uploadData EXCEPT ![id] = OnClose(@, proc[id].code, now)]
    /\ job' = [job EXCEPT ![id] = [pc |-> "closing",
                                  doc |-> JSONstringify(OnClose(uploadData[id], proc[id].code, now))]]
    /\ UNCHANGED <<arithExit, dirExists, disk, writes, activeUploads, data, proc,
                   boot, nextId, now, restarts, activeUploadId, console>>
    /\ UNCHANGED <<scriptVars, pageVars>>

\* the save of line 813 comes to its end and the timer is set (lines 816-824)
FinalSaved(id) ==
    /\ id \in DOMAIN job /\ job[id].pc = "closing"
    /\ disk' \in Saved(id, job[id].doc)
    /\ job' = [job EXCEPT ![id] = [pc |-> "retained", doc |-> NULL]]
    /\ UNCHANGED <<arithExit, dirExists, writes, activeUploads, uploadData, data,
                   proc, boot, nextId, now, restarts, activeUploadId, console>>
    /\ UNCHANGED <<scriptVars, pageVars>>

\* the timer's callback up to its await (lines 816-820), an hour after the
\* close: the writes begun before the close have long come to their ends
Expire(id) ==
    /\ id \in DOMAIN job /\ job[id].pc = "retained"
    /\ InFlight(id) = 0
    /\ activeUploads' = Drop(activeUploads, id)
    /\ job' = [job EXCEPT ![id].pc = "unlinking"]
    /\ UNCHANGED <<arithExit, dirExists, disk, writes, uploadData, data, proc, boot,
                   nextId, now, restarts, activeUploadId, console>>
    /\ UNCHANGED <<scriptVars, pageVars>>

\* fs.unlink of line 820 done; a missing file is an error that is logged
Unlinked(id) ==
    /\ id \in DOMAIN job /\ job[id].pc = "unlinking"
    /\ disk' = Drop(disk, id)
    /\ job' = Drop(job, id)
    /\ uploadData' = Drop(uploadData, id)
    /\ proc' = Drop(proc, id)
    /\ UNCHANGED <<arithExit, dirExists, writes, activeUploads, data, boot, nextId,
                   now, restarts, activeUploadId, console>>
    /\ UNCHANGED <<scriptVars, pageVars>>

\* a save begun by the stdout handler (line 800) comes to its end
ProgressSaved(w) ==
    /\ w \in writes
    /\ disk' \in Saved(w.id, w.doc)
    /\ writes' = writes \ {w}
    /\ UNCHANGED <<arithExit, dirExists, activeUploads, uploadData, data, job, proc,
                   boot, nextId, now, restarts, activeUploadId, console>>
    /\ UNCHANGED <<scriptVars, pageVars>>

(* ------------------------- the page (useUpload.ts) --------------------- *)
\* handleStop (useUpload.ts lines 95-104): api (api.ts lines 10-66) has no
\* stopUpload, the call throws before any request is sent, the catch logs it;
\* the server (lines 670-826) has no route that would have taken it
\* the mutation's onSuccess (useUpload.ts lines 50-58) on the answer of
\* POST /api/upload
onSuccess(id) ==
    /\ id \in DOMAIN job /\ job[id].pc \notin {"saving", "saved"}
    /\ activeUploadId # id
    /\ activeUploadId' = id
    /\ UNCHANGED <<arithExit, dirExists, disk, writes, activeUploads, uploadData,
                   data, job, proc, boot, nextId, now, restarts, console>>
    /\ UNCHANGED <<scriptVars, pageVars>>

handleStop ==
    /\ activeUploadId # 0
    /\ console' = console \cup {activeUploadId}
    /\ UNCHANGED <<arithExit, dirExists, disk, writes, activeUploads, uploadData,
                   data, job, proc, boot, nextId, now, restarts, activeUploadId>>
    /\ UNCHANGED <<scriptVars, pageVars>>

(* ------------------------------ the process ---------------------------- *)
\* what a progress file may hold after the process ended amid its writes
AfterCrash(id) ==
    {disk[id] : x \in {id} \cap DOMAIN disk}
    \cup (IF InFlight(id) > 0 /\ dirExists
          THEN {Torn} \cup {w.doc : w \in {v \in writes : v.id = id}}
               \cup {job[i].doc : i \in {j \in {id} \cap DOMAIN job : job[j].pc \in {"saving", "closing"}}}
               \cup {boot.data : x \in {y \in {id} : boot.pc = "save" /\ boot.uploadId = y}}
          ELSE {})

\* the server process ends and is started again: the Map, the handlers and
\* the timers are gone, the files stay, the callback of listen runs anew
Restart ==
    /\ restarts < MaxRestarts
    /\ restarts' = restarts + 1
    /\ \E S \in SUBSET {id \in Ids : AfterCrash(id) # {}} :
          /\ \A id \in S : id \in DOMAIN disk \/ InFlight(id) > 0
          /\ DOMAIN disk \subseteq S
          /\ disk' \in [S -> UNION {AfterCrash(id) : id \in S}]
          /\ \A id \in S : disk'[id] \in AfterCrash(id)
    /\ writes' = {}
    /\ activeUploads' = <<>>
    /\ uploadData' = <<>>
    /\ data' = <<>>
    /\ job' = <<>>
    /\ proc' = <<>>
    /\ boot' = BootStart
    /\ UNCHANGED <<arithExit, dirExists, nextId, now, activeUploadId, console>>
    /\ UNCHANGED <<scriptVars, pageVars>>

Next ==
    \/ initProgressDir
    \/ readdir
    \/ \E id \in Ids : loadRead(id)
    \/ loadMark
    \/ loadSaved
    \/ \E body \in Requests : PostUpload(body, MaxJobs, MaxLive)
    \/ \E id \in Ids : InitialSaved(id)
    \/ \E id \in Ids : Respond(id, {0})
    \/ \E id \in Ids : StdoutData(id, FALSE)
    \/ \E id \in Ids : StderrData(id)
    \/ \E id \in Ids : ChildKilled(id)
    \/ \E id \in Ids : Close(id)
    \/ \E id \in Ids : FinalSaved(id)
    \/ \E id \in Ids : Expire(id)
    \/ \E id \in Ids : Unlinked(id)
    \/ \E w \in writes : ProgressSaved(w)
    \/ Restart

Spec == Init /\ [][Next]_vars

\* a server that has started on an installation without progress files
InitSplit ==
    /\ arithExit \in BOOLEAN
    /\ dirExists = TRUE
    /\ disk = <<>>
    /\ writes = {}
    /\ activeUploads = <<>>
    /\ uploadData = <<>>
    /\ data = <<>>
    /\ job = <<>>
    /\ proc = <<>>
    /\ boot = [BootStart EXCEPT !.pc = "loop"]
    /\ nextId = 1
    /\ now = 0
    /\ restarts = 0
    /\ activeUploadId = 0
    /\ console = {}
    /\ ServerInstallation

\* one upload started from the page, its output cut into chunks anywhere
NextSplit ==
    \/ \E body \in SplitRequests : PostUpload(body, 1, MaxLive)
    \/ \E id \in Ids : InitialSaved(id)
    \/ \E id \in Ids : Respond(id, FailAts)
    \/ \E id \in Ids : StdoutData(id, TRUE)
    \/ \E id \in Ids : StderrData(id)
    \/ \E id \in Ids : Close(id)
    \/ \E id \in Ids : FinalSaved(id)
    \/ \E id \in Ids : Expire(id)
    \/ \E id \in Ids : Unlinked(id)
    \/ \E w \in writes : ProgressSaved(w)
    \/ \E id \in Ids : onSuccess(id)
    \/ handleStop

SpecSplit == InitSplit /\ [][NextSplit]_vars

(* ------------- the script run from a terminal (lines 871-1478) --------- *)
\* the runs of one behaviour
MaxRuns == 2
\* the files whose bytes are changed between the runs
MaxEdits == 1

\* a configuration whose owner has taken heic and heif out of JPG_EXTENSIONS
NoHeic == [Config EXCEPT !.JPG_EXTENSIONS = "jpg,jpeg"]

\* the variables of the configuration exported by the shell that starts the script
Exported ==
    [LOCAL_IMPORT_BASE |-> Config.LOCAL_IMPORT_BASE,
     RAW_EXTENSIONS |-> Config.RAW_EXTENSIONS, JPG_EXTENSIONS |-> Config.JPG_EXTENSIONS]

\* a folder of photographs: two files of the same content whose names differ
\* in one character, a name with brackets, a file of the operating system
\* with a photograph's extension, a HEIC file
ShootFiles ==
    << [path |-> "/h/Pictures/shoot/p-1.jpg", mdate |-> "2024-12-24", exif |-> "",
        hash |-> "aa", size |-> 2097152],
       [path |-> "/h/Pictures/shoot/p.1.jpg", mdate |-> "2024-12-25", exif |-> "",
        hash |-> "aa", size |-> 2097152],
       [path |-> "/h/Pictures/shoot/q[1].jpg", mdate |-> "2024-12-25", exif |-> "",
        hash |-> "bb", size |-> 1048576],
       [path |-> "/h/Pictures/shoot/Thumbs.db.jpg", mdate |-> "2024-12-25", exif |-> "",
        hash |-> "cc", size |-> 512],
       [path |-> "/h/Pictures/shoot/n.HEIC", mdate |-> "2024-12-26",
        exif |-> "2024:12:26 09:00:00", hash |-> "dd", size |-> 1024] >>

\* an SD card: the camera numbers the files again in each folder
CardFiles ==
    << [path |-> "/sd/DCIM/100/IMG_1.jpg", mdate |-> "2024-12-25", exif |-> "",
        hash |-> "e1", size |-> 1024],
       [path |-> "/sd/DCIM/100/IMG_2.CR2", mdate |-> "2024-12-24",
        exif |-> "2024:12:24 08:00:00", hash |-> "e2", size |-> 2048],
       [path |-> "/sd/DCIM/101/IMG_1.jpg", mdate |-> "2024-12-25", exif |-> "",
        hash |-> "e3", size |-> 4096] >>

ShootDir == "/h/Pictures/shoot"

CardDir == "/sd"

\* the arguments of the runs: upload with and without bounds, import of a day
UploadArgs ==
    { [SOURCE_DIR |-> ShootDir, START_DATE |-> b[1], END_DATE |-> b[2], DRY_RUN |-> d,
       IMPORT_MODE |-> FALSE, SD_PATH |-> "", IMPORT_DATE |-> ""] :
        b \in {<<"", "">>, <<"2024-12-25", "2024-12-25">>},
        d \in BOOLEAN }

ImportArgs ==
    { [SOURCE_DIR |-> "", START_DATE |-> "", END_DATE |-> "", DRY_RUN |-> d,
       IMPORT_MODE |-> TRUE, SD_PATH |-> CardDir, IMPORT_DATE |-> "2024-12-25"] :
        d \in BOOLEAN }

\* which transfer of a run fails (0: none); a dry run makes no transfer
ScriptFailAts(a) ==
    IF a.DRY_RUN THEN {0} ELSE IF a.IMPORT_MODE THEN {0, 1} ELSE {0, 2}

\* the photographs whose bytes may be changed
Editable == {1, 3}

\* the directories of that installation, the configuration's apart
ShootFolders ==
    {"/h", "/h/Desktop", "/h/Pictures", ShootDir, CardDir,
     "/sd/DCIM", "/sd/DCIM/100", "/sd/DCIM/101"}

InitScript ==
    /\ arithExit \in BOOLEAN
    /\ dirExists = TRUE
    /\ disk = <<>>
    /\ writes = {}
    /\ activeUploads = <<>>
    /\ uploadData = <<>>
    /\ data = <<>>
    /\ job = <<>>
    /\ proc = <<>>
    /\ boot = [BootStart EXCEPT !.pc = "loop"]
    /\ nextId = 1
    /\ now = 0
    /\ restarts = 0
    /\ activeUploadId = 0
    /\ console = {}
    /\ config \in {Config, NoHeic}
    /\ exported \in {NoEnviron, Exported}
    /\ photos = ShootFiles \o CardFiles
    /\ folders = ShootFolders \cup {CONFIG_DIR}
    /\ dotUploaded = NoLedgers
    /\ bucket = <<>>
    /\ runs = 0
    /\ run = NoRun
    /\ prev = NoRun
    /\ walk = <<>>
    /\ settings = SettingsStart
    /\ form = FormStart
    /\ response = NoResponse

\* what a run started now finds: no copy of it fails, and it is on macOS
\* ($OSTYPE darwin*) unless the action that starts it says otherwise
Env(failAt, awsOk) ==
    [arithExit |-> arithExit, failAt |-> failAt, configured |-> config # NoConfig,
     awsOk |-> awsOk,
     now |-> toISOString(runs + 1), today |-> Today, cfg |-> config,
     environ |-> exported, fs |-> photos, dirs |-> folders, ledgers |-> dotUploaded,
     failCopyAt |-> 0, partial |-> FALSE, darwin |-> TRUE]

\* the script run to its exit: the files, directories, ledgers and bucket as
\* it leaves them
Ran(a, env) ==
    /\ runs < MaxRuns
    /\ runs' = runs + 1
    /\ \E sh \in {backup_photos(a, env)} :
          /\ photos' = sh.fs
          /\ folders' = sh.dirs
          /\ dotUploaded' = sh.ledgers
          /\ bucket' = bucket \o sh.s3
          /\ run' = [a |-> a, env |-> env, sh |-> sh]
    /\ prev' = run
    /\ UNCHANGED <<arithExit, serverVars, pageVars, config, exported, walk>>

\* backup-photos.sh --source dir [--start d] [--end d] [--dry-run]
Upload(a, failAt, awsOk) == ~a.IMPORT_MODE /\ Ran(a, Env(failAt, awsOk))

\* backup-photos.sh --import dir --import-date d [--dry-run]
Import(a, failAt, awsOk) == a.IMPORT_MODE /\ Ran(a, Env(failAt, awsOk))

\* the bytes of a photograph changed in place between two runs, its
\* modification time kept or not
Edit(i) ==
    /\ runs \in 1..(MaxRuns - 1)
    /\ Cardinality({j \in 1..Len(photos) : Len(photos[j].hash) > 2}) < MaxEdits
    /\ \E mdate \in {photos[i].mdate, Today} :
          photos' = [photos EXCEPT ![i].hash = @ \o "'", ![i].mdate = mdate]
    /\ UNCHANGED <<arithExit, serverVars, pageVars, config, exported, folders, dotUploaded,
                   bucket, runs, run, prev, walk>>

NextScript ==
    \/ \E a \in UploadArgs : \E failAt \in ScriptFailAts(a) : Upload(a, failAt, TRUE)
    \/ \E a \in ImportArgs : \E failAt \in ScriptFailAts(a) : Import(a, failAt, TRUE)
    \/ \E i \in Editable : Edit(i)

SpecScript == InitScript /\ [][NextScript]_vars

(* -------- the script started where it cannot do its work (957-981, ------ *)
(* -------- 1437-1471): no path, no directory, no configuration, ---------- *)
(* -------- no bucket, no credentials -------------------------------------- *)
\* a directory that does not exist
NoDir == "/none"

PreUploadArgs ==
    { [SOURCE_DIR |-> p[1], START_DATE |-> "", END_DATE |-> "", DRY_RUN |-> p[2],
       IMPORT_MODE |-> FALSE, SD_PATH |-> "", IMPORT_DATE |-> ""] :
        p \in {<<ShootDir, FALSE>>, <<ShootDir, TRUE>>, <<"", FALSE>>, <<NoDir, FALSE>>} }

PreImportArgs ==
    { [SOURCE_DIR |-> "", START_DATE |-> "", END_DATE |-> "", DRY_RUN |-> p[2],
       IMPORT_MODE |-> TRUE, SD_PATH |-> p[1], IMPORT_DATE |-> "2024-12-25"] :
        p \in {<<CardDir, FALSE>>, <<CardDir, TRUE>>, <<"", FALSE>>, <<NoDir, FALSE>>} }

\* an installation with or without a usable configuration file
InitPre ==
    /\ arithExit \in BOOLEAN
    /\ dirExists = TRUE
    /\ disk = <<>>
    /\ writes = {}
    /\ activeUploads = <<>>
    /\ uploadData = <<>>
    /\ data = <<>>
    /\ job = <<>>
    /\ proc = <<>>
    /\ boot = [BootStart EXCEPT !.pc = "loop"]
    /\ nextId = 1
    /\ now = 0
    /\ restarts = 0
    /\ activeUploadId = 0
    /\ console = {}
    /\ config \in {Config, NoBucket, NoConfig}
    /\ exported \in {NoEnviron, Exported}
    /\ photos = ShootFiles \o CardFiles
    /\ folders = ShootFolders \cup (IF config = NoConfig THEN {} ELSE {CONFIG_DIR})
    /\ dotUploaded = NoLedgers
    /\ bucket = <<>>
    /\ runs = 0
    /\ run = NoRun
    /\ prev = NoRun
    /\ walk = <<>>
    /\ settings = SettingsStart
    /\ form = FormStart
    /\ response = NoResponse

NextPre ==
    \/ \E a \in PreUploadArgs, awsOk \in BOOLEAN : Upload(a, 0, awsOk)
    \/ \E a \in PreImportArgs, awsOk \in BOOLEAN : Import(a, 0, awsOk)

SpecPre == InitPre /\ [][NextPre]_vars

(* ------ photographs whose capture day is not the day of their file ----- *)
(* ------ (lines 1058-1107, 1203-1217) ------------------------------------ *)
\* a folder and a card with files saved again, or copied, on another day than
\* the one they were taken on
DatedFiles ==
    << [path |-> "/h/Pictures/shoot/a.jpg", mdate |-> "2024-12-26",
        exif |-> "2024:12:25 23:50:00", hash |-> "f1", size |-> 1024],
       [path |-> "/h/Pictures/shoot/b.jpg", mdate |-> "2024-12-25",
        exif |-> "2024:11:30 10:00:00", hash |-> "f2", size |-> 1024],
       [path |-> "/h/Pictures/shoot/c.jpg", mdate |-> "2024-12-25", exif |-> "",
        hash |-> "f3", size |-> 1024],
       [path |-> "/sd/DCIM/100/IMG_1.jpg", mdate |-> "2024-12-26",
        exif |-> "2024:12:25 18:00:00", hash |-> "f4", size |-> 1024],
       [path |-> "/sd/DCIM/100/IMG_2.jpg", mdate |-> "2024-12-25",
        exif |-> "2024:12:24 18:00:00", hash |-> "f5", size |-> 1024] >>

InitDates ==
    /\ arithExit \in BOOLEAN
    /\ dirExists = TRUE
    /\ disk = <<>>
    /\ writes = {}
    /\ activeUploads = <<>>
    /\ uploadData = <<>>
    /\ data = <<>>
    /\ job = <<>>
    /\ proc = <<>>
    /\ boot = [BootStart EXCEPT !.pc = "loop"]
    /\ nextId = 1
    /\ now = 0
    /\ restarts = 0
    /\ activeUploadId = 0
    /\ console = {}
    /\ config = Config
    /\ exported \in {NoEnviron, Exported}
    /\ photos = DatedFiles
    /\ folders = ShootFolders \cup {CONFIG_DIR}
    /\ dotUploaded = NoLedgers
    /\ bucket = <<>>
    /\ runs = 0
    /\ run = NoRun
    /\ prev = NoRun
    /\ walk = <<>>
    /\ settings = SettingsStart
    /\ form = FormStart
    /\ response = NoResponse

NextDates ==
    \/ \E a \in UploadArgs : \E failAt \in ScriptFailAts(a) : Upload(a, failAt, TRUE)
    \/ \E a \in ImportArgs : \E failAt \in ScriptFailAts(a) : Import(a, failAt, TRUE)

SpecDates == InitDates /\ [][NextDates]_vars

(* -------- two uploads at work at the same time (lines 696-826) --------- *)
\* the bodies of the requests that overlap
PairRequests ==
    { [sourcePath |-> "/h/Pictures/trip", endDate |-> "2024-12-24", dryRun |-> TRUE],
      [sourcePath |-> "/none"] }

NextPair ==
    \/ \E body \in PairRequests : PostUpload(body, MaxJobs, MaxJobs)
    \/ \E id \in Ids : InitialSaved(id)
    \/ \E id \in Ids : Respond(id, {0})
    \/ \E id \in Ids : StdoutData(id, FALSE)
    \/ \E id \in Ids : StderrData(id)
    \/ \E id \in Ids : Close(id)
    \/ \E id \in Ids : FinalSaved(id)
    \/ \E id \in Ids : Expire(id)
    \/ \E id \in Ids : Unlinked(id)
    \/ \E w \in writes : ProgressSaved(w)

SpecPair == InitSplit /\ [][NextPair]_vars

(* --------- the reads beside two uploads at work (lines 670-693) -------- *)
\* what the two GET routes leave alone
NotResponse == <<arithExit, serverVars, scriptVars, settings, form>>

\* GET /api/uploads (lines 671-681): the Map's entries, each with its id, sent
\* as JSON
GetUploads ==
    /\ response' = [route |-> "/api/uploads", status |-> 200,
                    body |-> {JSONstringify(WithId(id, get(id))) : id \in DOMAIN activeUploads}]
    /\ UNCHANGED NotResponse

\* GET /api/uploads/:id (lines 684-693): 404 when the Map has no such id
GetUpload(id) ==
    /\ response' = IF id \notin DOMAIN activeUploads
                   THEN [route |-> "/api/uploads/:id", id |-> id, status |-> 404,
                         body |-> [error |-> "Upload not found"]]
                   ELSE [route |-> "/api/uploads/:id", id |-> id, status |-> 200,
                         body |-> JSONstringify(WithId(id, get(id)))]
    /\ UNCHANGED NotResponse

NextReads ==
    \/ NextPair
    \/ GetUploads
    \/ \E id \in Ids : GetUpload(id)

SpecReads == InitSplit /\ [][NextReads]_vars

(* ------------- the settings form (useSettings.ts lines 45-156) --------- *)
\* what the settings form leaves alone
NotSettings == <<arithExit, serverVars, scriptVars, form, response>>

\* one more event of the settings form, by the handler named
SettingsEvent(name, s) ==
    /\ settings.n < MaxSettingsEvents
    /\ settings' = ConfigEffect([s EXCEPT !.last = name, !.n = @ + 1])
    /\ UNCHANGED NotSettings

\* the config query's data arrives (useSettings.ts lines 61-67; refetch, line 108)
getConfig(answer) ==
    SettingsEvent("getConfig", [settings EXCEPT !.currentConfig = answer])

\* handleConfigChange (useSettings.ts lines 126-128)
handleConfigChange(key, value) ==
    SettingsEvent("handleConfigChange",
                  [settings EXCEPT !.config = Spread(@, key, value)])

\* handleSave (useSettings.ts lines 112-119); saveMutation.mutate(config)
\* calls api.saveConfig(config) (line 104)
handleSave ==
    SettingsEvent("handleSave",
                  IF isDeepArchive(settings.config)
                  THEN [settings EXCEPT !.showWarning = TRUE]
                  ELSE [settings EXCEPT !.calls = Append(@, settings.config)])

\* handleConfirmSave (useSettings.ts lines 121-124), the button of the
\* warning (SettingsTab.tsx lines 332-352)
handleConfirmSave ==
    /\ settings.showWarning
    /\ SettingsEvent("handleConfirmSave",
                     [settings EXCEPT !.showWarning = FALSE,
                                      !.calls = Append(@, settings.config)])

\* setShowWarning (useSettings.ts line 151); the warning's cancel button and
\* its onClose call it with false (SettingsTab.tsx lines 332, 349)
setShowWarning(b) ==
    SettingsEvent("setShowWarning", [settings EXCEPT !.showWarning = b])

InitPage == InitSplit

NextSettings ==
    \/ \E answer \in CurrentConfigs : getConfig(answer)
    \/ \E value \in STORAGE_CLASSES : handleConfigChange("S3_STORAGE_CLASS", value)
    \/ \E value \in {"", "b"} : handleConfigChange("S3_BUCKET", value)
    \/ handleSave
    \/ handleConfirmSave
    \/ \E b \in BOOLEAN : setShowWarning(b)

SpecSettings == InitPage /\ [][NextSettings]_vars

(* --------------- the upload form (useUpload.ts lines 6-157) ------------ *)
\* what the upload form leaves alone, activeUploadId apart
NotForm ==
    <<arithExit, dirExists, disk, writes, activeUploads, uploadData, data, job,
      proc, boot, nextId, now, restarts, console, scriptVars, settings, response>>

\* one more event of the upload form, by the handler named; the effect of
\* lines 30-47 runs in the render that follows
FormEvent(name, f, id) ==
    /\ form.n < MaxFormEvents
    /\ \E g \in {[f EXCEPT !.last = name, !.n = @ + 1]} :
          /\ form' = RestoreEffect(g, id)
          /\ activeUploadId' = RestoredId(g, id)
    /\ UNCHANGED NotForm

\* the list query's data arrives (useUpload.ts lines 15-19)
getUploads(answer) ==
    FormEvent("getUploads", [form EXCEPT !.activeUploads = answer], activeUploadId)

\* handleFileChange (useUpload.ts lines 63-73)
handleFileChange(webkitRelativePath) ==
    \E pathParts \in {Segments(webkitRelativePath)} :
        FormEvent("handleFileChange",
                  IF Len(pathParts) > 1
                  THEN [form EXCEPT !.selectedPath = pathParts[1]]
                  ELSE form,
                  activeUploadId)

setStartDate(d) ==
    FormEvent("setStartDate", [form EXCEPT !.startDate = d], activeUploadId)

setEndDate(d) ==
    FormEvent("setEndDate", [form EXCEPT !.endDate = d], activeUploadId)

setDryRun(b) ==
    FormEvent("setDryRun", [form EXCEPT !.dryRun = b, !.dryRunBy = "setDryRun"],
              activeUploadId)

\* handleUpload (useUpload.ts lines 75-93); uploadMutation.mutate(params)
\* calls api.uploadPhotos (lines 50-51)
handleUpload ==
    FormEvent("handleUpload",
              IF form.selectedPath = "" THEN form
              ELSE [form EXCEPT !.requests = Append(@, Params(form))],
              activeUploadId)

\* the mutation's onSuccess (useUpload.ts lines 52-56) on the answer to a
\* request of this form
uploadSucceeded(uploadId) ==
    /\ form.requests # <<>>
    /\ FormEvent("onSuccess", form, uploadId)

NextForm ==
    \/ \E answer \in UploadLists : getUploads(answer)
    \/ \E webkitRelativePath \in RelativePaths : handleFileChange(webkitRelativePath)
    \/ \E d \in PickedDates : setStartDate(d)
    \/ \E d \in PickedDates : setEndDate(d)
    \/ \E b \in BOOLEAN : setDryRun(b)
    \/ handleUpload
    \/ \E uploadId \in Ids : uploadSucceeded(uploadId)
    \/ handleStop

SpecForm == InitPage /\ [][NextForm]_vars

(* ------------------------------ the claims ----------------------------- *)
\* the statuses a record takes (lines 733, 808, 484)
Terminal == {"completed", "failed", "interrupted"}

Statuses == {"running"} \cup Terminal

\* the listen callback has run to its end
BootDone == boot.pc = "loop" /\ boot.files = {}

\* C1: a record whose status is completed, failed or interrupted keeps that
\* status in every later step, in the Map (as GET /api/uploads/:id shows it)
\* and in its progress file, for as long as it is there.
TerminalAbsorbing ==
    [][/\ \A id \in DOMAIN activeUploads \cap DOMAIN activeUploads' :
             get(id).status \in Terminal => get(id)'.status = get(id).status
       /\ \A id \in DOMAIN disk \cap DOMAIN disk' :
             (disk[id] # Torn /\ disk'[id] # Torn /\ disk[id].status \in Terminal)
                => disk'[id].status = disk[id].status]_vars

\* C2: the step in which the close handler takes a child's end makes the
\* job's record completed when the exit code is 0 and failed otherwise (a
\* killed child has no code), and gives it endTime and exitCode in that same
\* step; and every record's status is always one of the four.
CloseSetsOutcome ==
    /\ [](/\ \A id \in DOMAIN activeUploads : get(id).status \in Statuses
          /\ \A id \in DOMAIN uploadData : uploadData[id].status \in Statuses)
    /\ [][\A id \in DOMAIN job \cap DOMAIN job' :
             (job[id].pc = "running" /\ job'[id].pc = "closing") =>
                /\ uploadData'[id].status = IF proc[id].code = 0 THEN "completed" ELSE "failed"
                /\ (uploadData'[id].status = "completed") <=> (proc[id].code = 0)
                /\ {"endTime", "exitCode"} \subseteq DOMAIN uploadData'[id]
                /\ {"endTime", "exitCode"} \cap DOMAIN uploadData[id] = {}
                /\ uploadData'[id].exitCode = proc[id].code
                /\ job'[id].doc.status = uploadData'[id].status]_vars

\* C2's case: one job closed with code 0 and completed, another closed
\* without a code (killed) and failed
CloseSetsOutcomeWitness ==
    \E a, b \in DOMAIN uploadData :
       /\ uploadData[a].status = "completed" /\ uploadData[a].exitCode = 0
       /\ uploadData[b].status = "failed" /\ uploadData[b].exitCode = nullCode

\* C3: the step in which the startup pass takes up a record it read as
\* running puts into the Map, and hands to the save, that record with status
\* interrupted and every other field as read from the file; a file read with
\* another status is passed over and nothing of it is changed.
ReconcileChangesOnlyStatus ==
    [][/\ (boot.pc = "loop" /\ boot'.pc = "loaded") =>
             /\ boot'.data = JSONparse(disk[boot'.uploadId])
             /\ boot'.data.status = "running"
       /\ (boot.pc = "loop" /\ boot'.pc = "loop" /\ boot'.files # boot.files) =>
             UNCHANGED <<disk, activeUploads, data, uploadData>>
       /\ (boot.pc = "loaded" /\ boot'.pc = "save") =>
             LET persisted == boot.data
                 inMemory == get(boot.uploadId)'
             IN /\ inMemory.status = "interrupted"
                /\ DOMAIN inMemory = DOMAIN persisted
                /\ \A k \in DOMAIN persisted \ {"status"} : inMemory[k] = persisted[k]
                /\ boot'.data = JSONstringify(inMemory)
       /\ (boot.pc = "save" /\ boot'.pc = "loop" /\ dirExists) =>
             disk'[boot.uploadId] \in {boot.data, Torn}]_vars

\* C3's case: after a restart the pass has taken up a job that had written
\* output and counted files, and has saved it as interrupted
ReconcileChangesOnlyStatusWitness ==
    /\ restarts = 1
    /\ \E id \in DOMAIN data \cap DOMAIN disk \cap DOMAIN activeUploads :
          /\ activeUploads[id] = "data"
          /\ data[id].output # ""
          /\ data[id].currentFile # ""
          /\ disk[id] = JSONstringify(data[id])
          /\ disk[id].status = "interrupted"

\* C4: the startup pass is over before an upload request is served: the
\* record of a job started in this process stays the object its handler put
\* into the Map, never replaced by a copy loaded from disk and marked
\* interrupted.
ReconcileBeforeRequests ==
    \A id \in DOMAIN job \cap DOMAIN activeUploads :
        /\ activeUploads[id] = "uploadData"
        /\ get(id).status = "interrupted" => FALSE

\* C5: once the server has been started again and the startup pass is over,
\* every record a progress file holds from before is in the Map, so that
\* GET /api/uploads and GET /api/uploads/:id return it, in a terminal state
\* (interrupted if it was saved as running, else the state it was saved in)
\* and with the progress the file holds.
NoJobLostAcrossRestart ==
    (restarts >= 1 /\ BootDone) =>
        \A id \in DOMAIN disk \ DOMAIN job :
            disk[id] # Torn =>
                /\ id \in DOMAIN list
                /\ list[id].status \in Terminal
                /\ disk[id].status \in Terminal => list[id].status = disk[id].status
                /\ list[id].progress = disk[id].progress

\* C6: in the step in which POST /api/upload sends its answer (before the
\* script is even spawned) a record with the answered id and status running
\* is in the Map, so that GET /api/uploads/:id shows running, and the
\* record's progress file has been written with status running.
RespondAfterRecord ==
    [][\A id \in DOMAIN job \cap DOMAIN job' :
          (job[id].pc = "saved" /\ job'[id].pc = "running") =>
             /\ id \notin DOMAIN proc
             /\ id \in DOMAIN activeUploads
             /\ get(id).status = "running"
             /\ id \in DOMAIN disk
             /\ disk[id] # Torn
             /\ disk[id].status = "running"]_vars

\* C7: a job whose child has ended with code 0 and whose record shows
\* completed has in progress.completed the number of files the script
\* transferred in that run (its upload_count), however the child's output
\* was cut into chunks.
CompletedCountIsUploadCount ==
    \A id \in DOMAIN activeUploads \cap DOMAIN proc :
        (proc[id].code = 0 /\ get(id).status = "completed") =>
            get(id).progress.completed = proc[id].upload_count

\* C8: no step makes a record's progress.completed smaller, and the stdout
\* handler takes the child's output in the order it was written: what the
\* record's output holds followed by what is still to come stays the same
\* text.
CompletedNeverDecreases ==
    [][\A id \in DOMAIN uploadData \cap DOMAIN uploadData' :
          /\ uploadData'[id].progress.completed >= uploadData[id].progress.completed
          /\ (id \in DOMAIN proc /\ id \in DOMAIN proc' /\ proc'[id].chunks = proc[id].chunks + 1)
                => uploadData'[id].output \o proc'[id].out = uploadData[id].output \o proc[id].out]_vars

\* C8's case: a running job whose output came in two chunks and whose
\* record has counted the two transfers of the run
CompletedNeverDecreasesWitness ==
    \E id \in DOMAIN job :
       /\ job[id].pc = "running"
       /\ proc[id].chunks = 2
       /\ uploadData[id].progress.completed = 2
       /\ uploadData[id].progress.skipped = 0
       /\ proc[id].upload_count = 2

\* nothing of the server is under way: no handler, child or timer of a job,
\* no write, and the startup pass is over
Quiescent == job = <<>> /\ writes = {} /\ BootDone

\* C9: a record leaves the Map, and its progress file is deleted, only when
\* the job's status is terminal (the end of the server process apart, which
\* empties the Map); and every record in a terminal state is removed from
\* the Map and from disk: when nothing of the server is under way any more,
\* no timer being left, no record in a terminal state remains.
RetentionRemovesTerminal ==
    /\ [][restarts' = restarts =>
            /\ \A id \in DOMAIN activeUploads \ DOMAIN activeUploads' :
                  get(id).status \in Terminal
            /\ \A id \in DOMAIN disk \ DOMAIN disk' :
                  id \in DOMAIN uploadData /\ uploadData[id].status \in Terminal]_vars
    /\ [](Quiescent =>
            /\ \A id \in DOMAIN activeUploads : get(id).status \notin Terminal
            /\ \A id \in DOMAIN disk : disk[id] # Torn => disk[id].status \notin Terminal)

\* C10: the step in which the page's stop is asked for a running job ends
\* the job's child (it is killed: no exit code, nothing more written), so
\* that the close handler makes the job failed.
StopTerminatesProcess ==
    [][(/\ console' # console
        /\ activeUploadId \in DOMAIN job
        /\ job[activeUploadId].pc = "running") =>
           /\ proc'[activeUploadId].code = nullCode
           /\ proc'[activeUploadId].out = ""]_vars

(* ---------------------- the claims about the script -------------------- *)
\* a run has been made, and which kind it was
Happened(r) == "sh" \in DOMAIN r

LiveUpload(r) == Happened(r) /\ ~r.a.IMPORT_MODE /\ ~r.a.DRY_RUN

DryUpload(r) == Happened(r) /\ ~r.a.IMPORT_MODE /\ r.a.DRY_RUN

Range(seq) == {seq[i] : i \in 1..Len(seq)}

\* the lines of a ledger that record file f of directory dir with its
\* present content: "timestamp|relative path|hash"
Entries(ledger, dir, f) ==
    LET entry == "|" \o StripPrefix(f.path, dir) \o "|" \o f.hash
    IN {i \in 1..Len(ledger) :
          /\ EndsWith(ledger[i], entry)
          /\ ~includes(SubSeq(ledger[i], 1, Len(ledger[i]) - Len(entry)), "|")}

\* the transfers of file f with its present content that a run made
Transfers(sh, f) == {i \in 1..Len(sh.s3) : sh.s3[i].file = f.path /\ sh.s3[i].hash = f.hash}

\* a file that a run with arguments a has to back up: not excluded, within
\* the bounds, of a known type
Chosen(f, a, cfg) ==
    /\ ~Excluded(basename(f.path), cfg)
    /\ is_in_date_range(f, a.START_DATE, a.END_DATE)
    /\ get_file_type(f.path, cfg) # "unknown"

\* the branch a run took for the file of that relative path
Took(sh, name, why) == <<name, why>> \in Range(sh.log)

\* C11: of two successive live upload runs of the same directory in which no
\* transfer fails, a file both have to back up, the same in both and in no
\* ledger entry before them, is transferred once in all and has one ledger
\* entry after them, and the second run counts it as skipped.
DedupIdempotent ==
    (/\ LiveUpload(prev) /\ LiveUpload(run)
     /\ prev.env.failAt = 0 /\ run.env.failAt = 0
     /\ prev.a.SOURCE_DIR = run.a.SOURCE_DIR)
    => \A f \in Range(find(run.env.fs, run.a.SOURCE_DIR)) :
          (/\ f \in Range(prev.env.fs)
           /\ Chosen(f, prev.a, prev.env.cfg) /\ Chosen(f, run.a, run.env.cfg)
           /\ Entries(Ledger(prev.env.ledgers, run.a.SOURCE_DIR), run.a.SOURCE_DIR, f) = {})
          => /\ Cardinality(Transfers(prev.sh, f)) + Cardinality(Transfers(run.sh, f)) = 1
             /\ Cardinality(Entries(Ledger(run.sh.ledgers, run.a.SOURCE_DIR),
                                    run.a.SOURCE_DIR, f)) = 1
             /\ Took(run.sh, StripPrefix(f.path, run.a.SOURCE_DIR), "uploaded")
             /\ run.sh.skip_count > 0

\* file f of the directory of the last run was recorded with other bytes
\* before that run, and not with its present ones
Changed(f) ==
    LET dir == run.a.SOURCE_DIR
        before == Ledger(run.env.ledgers, dir)
    IN /\ Happened(prev)
       /\ Entries(before, dir, f) = {}
       /\ \E g \in Range(prev.env.fs) :
             g.path = f.path /\ g.hash # f.hash /\ Entries(before, dir, g) # {}

\* C12: a live upload run in which no transfer fails does not skip as
\* uploaded a file it has to back up whose bytes have changed since its
\* ledger entry was written: it transfers the file and appends one entry
\* with the new hash.
ContentChangeInvalidates ==
    (LiveUpload(run) /\ run.env.failAt = 0)
    => \A f \in Range(find(run.env.fs, run.a.SOURCE_DIR)) :
          (Chosen(f, run.a, run.env.cfg) /\ Changed(f))
          => /\ ~Took(run.sh, StripPrefix(f.path, run.a.SOURCE_DIR), "uploaded")
             /\ Cardinality(Transfers(run.sh, f)) = 1
             /\ Cardinality(Entries(Ledger(run.sh.ledgers, run.a.SOURCE_DIR),
                                    run.a.SOURCE_DIR, f)) = 1
             /\ Cardinality(Entries(Ledger(run.sh.ledgers, run.a.SOURCE_DIR),
                                    run.a.SOURCE_DIR, f)
                            \ (1..Len(Ledger(run.env.ledgers, run.a.SOURCE_DIR)))) = 1

\* a changed file has been transferred again by a live run
ContentChangeInvalidatesWitness ==
    /\ LiveUpload(run) /\ run.env.failAt = 0
    /\ \E f \in Range(find(run.env.fs, run.a.SOURCE_DIR)) :
          /\ Chosen(f, run.a, run.env.cfg) /\ Changed(f)
          /\ Transfers(run.sh, f) # {}

\* C13: is_uploaded answers yes for a file of a directory exactly when the
\* directory's ledger has an entry with the file's relative path and the
\* hash of its present bytes (and so no when there is no ledger).
IsUploadedIffEntry ==
    \A dir \in {ShootDir, Exported.LOCAL_IMPORT_BASE \o "/20241225"} :
        \A f \in Range(find(photos, dir)) :
            is_uploaded(Ledger(dotUploaded, dir), dir, f)
                <=> Entries(Ledger(dotUploaded, dir), dir, f) # {}

\* C14: a run with --dry-run transfers nothing, appends no ledger line and
\* copies no file, in upload mode and in import mode with its upload phase.
DryRunMutatesNothing ==
    [][(runs' = runs + 1 /\ run'.a.DRY_RUN)
         => /\ bucket' = bucket
            /\ dotUploaded' = dotUploaded
            /\ photos' = photos
            /\ run'.sh.transfers = 0 /\ run'.sh.copies = 0]_vars

\* a dry upload run that found a file to transfer, followed by a dry import
\* run that found a file to copy
DryRunMutatesNothingWitness ==
    /\ DryUpload(prev)
    /\ \E e \in Range(prev.sh.log) : e[2] = "upload"
    /\ Happened(run) /\ run.a.IMPORT_MODE /\ run.a.DRY_RUN
    /\ \E e \in Range(run.sh.log) : e[2] = "copy"
    /\ run.sh.code = 0

\* the live run started where run r was started, no transfer failing
LiveTwin(r) ==
    backup_photos([r.a EXCEPT !.DRY_RUN = FALSE], [r.env EXCEPT !.failAt = 0])

\* C15: a dry run takes for every file the branch the live run started on
\* the same files, configuration and ledgers takes, and ends with the same
\* counts of imported and skipped files, of files met, of files skipped by
\* the upload, and the same total size.
DryDecidesAsLive ==
    (Happened(run) /\ run.a.DRY_RUN)
    => \E live \in {LiveTwin(run)} :
          /\ run.sh.log = live.log
          /\ run.sh.imported_count = live.imported_count
          /\ run.sh.skipped_count = live.skipped_count
          /\ run.sh.file_count = live.file_count
          /\ run.sh.skip_count = live.skip_count
          /\ run.sh.total_size = live.total_size

\* the days a bound may name: around the dates of the files, across the end
\* of a month and of a year
BoundDays ==
    {"2024-11-30", "2024-12-24", "2024-12-25", "2024-12-26", "2025-01-01",
     "2025-01-05"}

\* the day "YYYY-MM-DD" as a number that grows with the calendar
DayNumber(d) ==
    parseInt(SubSeq(d, 1, 4)) * 10000 + parseInt(SubSeq(d, 6, 7)) * 100
        + parseInt(SubSeq(d, 9, 10))

DayNumbers == [d \in BoundDays |-> DayNumber(d)]

\* C16: is_in_date_range takes a file exactly when its date is not before
\* the start bound, if one is given, and not after the end bound, if one is
\* given: the days of the bounds themselves are in range, the day before the
\* start and the day after the end are not, and without bounds every file is.
RangeInclusive ==
    \A mdate \in {photos[i].mdate : i \in 1..Len(photos)} :
        \A START_DATE \in BoundDays \cup {""}, END_DATE \in BoundDays \cup {""} :
            is_in_date_range([mdate |-> mdate], START_DATE, END_DATE)
                <=> /\ START_DATE = "" \/ DayNumbers[START_DATE] <= DayNumbers[mdate]
                    /\ END_DATE = "" \/ DayNumbers[mdate] <= DayNumbers[END_DATE]

\* a run bounded by one day on both sides has taken a file of that day and
\* left out the files of the day before and of the day after
RangeInclusiveWitness ==
    /\ Happened(run) /\ ~run.a.IMPORT_MODE
    /\ run.a.START_DATE = "2024-12-25" /\ run.a.END_DATE = "2024-12-25"
    /\ Took(run.sh, "q[1].jpg", "upload")
    /\ Took(run.sh, "p-1.jpg", "out of range")
    /\ Took(run.sh, "n.HEIC", "out of range")
    /\ \E f \in Range(run.env.fs) :
          f.path = ShootDir \o "/q[1].jpg" /\ f.mdate = "2024-12-25"

\* the files of fs that lie in directory dir
FilesIn(fs, dir) ==
    {f \in Range(fs) : Len(f.path) > Len(dir) /\ SubSeq(f.path, 1, Len(dir) + 1) = dir \o "/"}

\* the destination of an import of day d under the configured base
Destination(cfg, d) == cfg.LOCAL_IMPORT_BASE \o "/" \o NoDashes(d)

\* C17: after a live import of day D into a destination that held no file,
\* the destination (the configured base, then D without its dashes) holds a
\* copy of every file find lists on the card whose date is D, and nothing
\* that is not a copy of such a file.
ExactDateImport ==
    (/\ Happened(run) /\ run.a.IMPORT_MODE /\ ~run.a.DRY_RUN
     /\ FilesIn(run.env.fs, Destination(run.env.cfg, run.a.IMPORT_DATE)) = {})
    => LET dest == FilesIn(run.sh.fs, Destination(run.env.cfg, run.a.IMPORT_DATE))
           card == Range(find(run.env.fs, run.a.SD_PATH))
       IN /\ \A f \in card :
                f.mdate = run.a.IMPORT_DATE => \E g \in dest : g.hash = f.hash
          /\ \A g \in dest :
                \E f \in card : f.mdate = run.a.IMPORT_DATE /\ g.hash = f.hash

\* a word in capital letters, and with its first letter only a capital
RECURSIVE ToUpper(_)
ToUpper(w) ==
    IF w = "" THEN ""
    ELSE LET c == Char(w, 1)
             at == {i \in 1..Len(LowerChars) : Char(LowerChars, i) = c}
         IN (IF at = {} THEN c ELSE Char(UpperChars, Min(at)))
            \o ToUpper(SubSeq(w, 2, Len(w)))

Capitalised(w) == ToUpper(SubSeq(w, 1, 1)) \o SubSeq(w, 2, Len(w))

Spellings(w) == {w, ToUpper(w), Capitalised(w)}

\* extensions no configuration of the model lists
OtherExtensions == {"png", "txt", "xmp", "jpg2"}

\* the file types get_file_type finds, under the configuration, for the
\* extensions of the two configured lists and for others
ClassificationComplete ==
    /\ \A e \in Range(Fields(config.RAW_EXTENSIONS)) : \A x \in Spellings(e) :
          get_file_type("/d/IMG_1." \o x, config) = "raw"
    /\ \A e \in Range(Fields(config.JPG_EXTENSIONS)) : \A x \in Spellings(e) :
          get_file_type("/d/IMG_1." \o x, config) = "jpg"
    /\ \A e \in OtherExtensions
                \cup (Range(Fields(Config.JPG_EXTENSIONS))
                      \ Range(Fields(config.JPG_EXTENSIONS))) :
          \A x \in Spellings(e) : get_file_type("/d/IMG_1." \o x, config) = "unknown"

\* a file an upload run has to look at whose type is unknown: listed by find,
\* not excluded, within the bounds, not yet uploaded
UnknownMet(r, f) ==
    /\ f \in Range(find(r.env.fs, r.a.SOURCE_DIR))
    /\ get_file_type(f.path, r.env.cfg) = "unknown"
    /\ ~Excluded(basename(f.path), r.env.cfg)
    /\ is_in_date_range(f, r.a.START_DATE, r.a.END_DATE)
    /\ ~is_uploaded(Ledger(r.env.ledgers, r.a.SOURCE_DIR), r.a.SOURCE_DIR, f)

\* C18: the extensions of the configured raw list classify as raw and those
\* of the configured compressed list as jpg, in small and in capital letters,
\* every other extension as unknown; and an upload run in which no transfer
\* fails counts each file of unknown type as skipped, neither transfers nor
\* records it, and ends with its summary.
UnknownSkippedNotFatal ==
    /\ ClassificationComplete
    /\ (Happened(run) /\ ~run.a.IMPORT_MODE /\ run.env.failAt = 0)
       => \A f \in Range(run.env.fs) :
             UnknownMet(run, f)
             => /\ Took(run.sh, StripPrefix(f.path, run.a.SOURCE_DIR), "unknown")
                /\ run.sh.skip_count > 0
                /\ Transfers(run.sh, f) = {}
                /\ Entries(Ledger(run.sh.ledgers, run.a.SOURCE_DIR), run.a.SOURCE_DIR, f)
                      = Entries(Ledger(run.env.ledgers, run.a.SOURCE_DIR),
                                run.a.SOURCE_DIR, f)
                /\ run.sh.code = 0

\* the directory a run uploads from: the source directory, or the
\* destination of the import
RunDir(r) ==
    IF r.a.IMPORT_MODE THEN r.env.environ.LOCAL_IMPORT_BASE \o "/" \o NoDashes(r.a.IMPORT_DATE)
    ELSE r.a.SOURCE_DIR

\* a live run has come to the transfer that fails
TransferFailed(r) ==
    /\ Happened(r) /\ ~r.a.DRY_RUN
    /\ r.env.failAt > 0 /\ r.sh.transfers >= r.env.failAt

\* C19: a live run in which a transfer fails stops there with a non-zero exit
\* code: no further transfer is started, the failed file is neither stored
\* nor recorded, and the ledger is the one the run found followed by one
\* entry for each file it transferred before.
TransferFailureFatal ==
    TransferFailed(run)
    => LET before == Ledger(run.env.ledgers, RunDir(run))
           after == Ledger(run.sh.ledgers, RunDir(run))
           failed == run.sh.log[Len(run.sh.log)]
       IN /\ run.sh.code # 0
          /\ run.sh.transfers = run.env.failAt
          /\ Len(run.sh.s3) = run.env.failAt - 1
          /\ failed[2] = "upload"
          /\ \A i \in 1..Len(run.sh.s3) :
                StripPrefix(run.sh.s3[i].file, RunDir(run)) # failed[1]
          /\ Len(after) = Len(before) + Len(run.sh.s3)
          /\ SubSeq(after, 1, Len(before)) = before
          /\ \A i \in 1..Len(run.sh.s3) :
                after[Len(before) + i]
                    = run.env.now \o "|" \o StripPrefix(run.sh.s3[i].file, RunDir(run))
                                  \o "|" \o run.sh.s3[i].hash

\* the second transfer of a run has failed after the first was recorded, and
\* a file that was still to be transferred has not been looked at
TransferFailureFatalWitness ==
    /\ TransferFailed(run) /\ ~run.a.IMPORT_MODE
    /\ run.env.failAt = 2 /\ Len(run.sh.s3) = 1
    /\ Len(Ledger(run.sh.ledgers, RunDir(run))) = Len(Ledger(run.env.ledgers, RunDir(run))) + 1
    /\ \E f \in Range(find(run.env.fs, run.a.SOURCE_DIR)) :
          /\ Chosen(f, run.a, run.env.cfg)
          /\ \A e \in Range(run.sh.log) : e[1] # StripPrefix(f.path, run.a.SOURCE_DIR)

\* the branches of the two loops that skip a file
SkipKinds == {"excluded", "out of range", "uploaded", "unknown"}

Count(log, kinds) == Cardinality({i \in 1..Len(log) : log[i][2] \in kinds})

\* C20: a run in which no transfer fails looks at every file find lists,
\* counts one skip for each file it skips (excluded, out of range, uploaded,
\* unknown type; name taken in the destination of an import) and ends with
\* exit code 0.
SkipsNeverFatal ==
    (Happened(run) /\ run.env.failAt = 0)
    => /\ run.sh.code = 0
       /\ run.sh.skip_count = Count(run.sh.log, SkipKinds)
       /\ run.sh.skipped_count = Count(run.sh.log, {"exists"})
       /\ run.a.IMPORT_MODE
             => \A f \in Range(find(run.env.fs, run.a.SD_PATH)) :
                   \E e \in Range(run.sh.log) : e[1] = f.path
       /\ ~run.a.IMPORT_MODE
             => \A f \in Range(find(run.env.fs, run.a.SOURCE_DIR)) :
                   \E e \in Range(run.sh.log) :
                       e[1] = StripPrefix(f.path, run.a.SOURCE_DIR)

\* a run was started without what it needs: its path, its directory, a
\* configuration file with a bucket, credentials
PreconditionFailed(r) ==
    \/ r.a.IMPORT_MODE /\ (r.a.SD_PATH = "" \/ r.a.SD_PATH \notin r.env.dirs)
    \/ ~r.a.IMPORT_MODE /\ (r.a.SOURCE_DIR = "" \/ r.a.SOURCE_DIR \notin r.env.dirs)
    \/ ~r.env.configured
    \/ S3_BUCKET(r.env) = ""
    \/ ~r.env.awsOk

\* C21: a run started without its path, its directory, its configuration
\* file, its bucket or its credentials ends with a non-zero exit code and has
\* copied no file, made no directory, transferred no object and written no
\* ledger line, in upload mode and in import mode.
PreconditionsFailFast ==
    (Happened(run) /\ PreconditionFailed(run))
    => /\ run.sh.code # 0
       /\ run.sh.fs = run.env.fs
       /\ run.sh.dirs = run.env.dirs
       /\ run.sh.s3 = <<>>
       /\ run.sh.ledgers = run.env.ledgers

(* ---------------------- claims about the page's forms ------------------ *)
\* the step is an event of the settings form by the handler named
SettingsStep(name) == settings'.n = settings.n + 1 /\ settings'.last = name

\* the step calls api.saveConfig
Sends == Len(settings'.calls) > Len(settings.calls)

\* C22: a configuration of storage class DEEP_ARCHIVE is sent by
\* handleConfirmSave only, which closes the warning; handleSave on such a
\* configuration opens the warning and sends nothing; closing the warning
\* sends nothing; handleSave on a configuration of any other class sends it
\* at once and leaves the warning as it is
DeepArchiveNeedsConfirmation ==
    [][ /\ Sends => /\ settings'.calls = Append(settings.calls, settings.config)
                    /\ SettingsStep("handleSave") \/ SettingsStep("handleConfirmSave")
        /\ (Sends /\ settings.config.S3_STORAGE_CLASS = "DEEP_ARCHIVE")
              => /\ SettingsStep("handleConfirmSave")
                 /\ settings.showWarning /\ ~settings'.showWarning
        /\ SettingsStep("handleConfirmSave") => Sends /\ ~settings'.showWarning
        /\ (SettingsStep("handleSave") /\ settings.config.S3_STORAGE_CLASS = "DEEP_ARCHIVE")
              => settings'.showWarning /\ ~Sends
        /\ (SettingsStep("handleSave") /\ settings.config.S3_STORAGE_CLASS # "DEEP_ARCHIVE")
              => Sends /\ settings'.showWarning = settings.showWarning
        /\ SettingsStep("setShowWarning") => ~Sends
      ]_vars

\* a DEEP_ARCHIVE configuration has gone out on the confirmation, after one
\* of another class went out at once
DeepArchiveNeedsConfirmationWitness ==
    /\ settings.last = "handleConfirmSave"
    /\ ~settings.showWarning
    /\ Len(settings.calls) = 2
    /\ settings.calls[1].S3_STORAGE_CLASS = "STANDARD"
    /\ settings.calls[2].S3_STORAGE_CLASS = "DEEP_ARCHIVE"

\* the step sends a request of the upload form
Requested == Len(form'.requests) > Len(form.requests)

\* C23: a request the upload form sends carries dryRun = true unless the
\* value of dryRun was last set by the user's setDryRun, whatever lists
\* arrived, uploads were restored, directories and dates were picked before;
\* and no request is sent while no directory is selected
DryRunUnlessSwitchedOff ==
    [][ Requested
          => /\ form.selectedPath # ""
             /\ form'.requests = Append(form.requests, Params(form))
             /\ ~Params(form).dryRun => form.dryRunBy = "setDryRun"
      ]_vars

(* ------------------ more claims about the job tracker ------------------ *)
\* the child of id has closed, the close handler's save and every save begun
\* before it have come to their ends
Settled(id) == id \in DOMAIN job /\ job[id].pc = "retained" /\ InFlight(id) = 0

\* C24: once a job's process has closed and no write of its progress file
\* is outstanding, the file holds the record the Map holds: its status is
\* the final one and its output, error text, currentFile and progress are
\* the record's
DurableFollowsMemory ==
    \A id \in DOMAIN activeUploads :
        Settled(id) => id \in DOMAIN disk /\ disk[id] = JSONstringify(get(id))

\* what job j's own events change: where its handler stands, its child, its
\* writes in flight
Own(j) ==
    << IF j \in DOMAIN job THEN job[j] ELSE NULL,
       IF j \in DOMAIN proc THEN proc[j] ELSE NULL,
       {w \in writes : w.id = j} >>

\* the record GET /api/uploads/:id answers with, NULL when the Map has none
Record(id) == IF id \in DOMAIN activeUploads THEN get(id) ELSE NULL

\* a step that is an event of another job (its start, its output, its close,
\* the end of one of its writes, its expiry) leaves the record of a job as it is
OthersLeaveRecord ==
    \A id \in Ids : \A j \in Ids \ {id} : Own(j)' # Own(j) => Record(id)' = Record(id)

\* C25: the Map's record of a job is always the object that job's own
\* handlers update, and the events of any other job leave that record
\* unchanged (the end of the server process apart, which ends all jobs)
JobsDoNotInterfere ==
    [][ /\ \A id \in DOMAIN activeUploads' \cap DOMAIN job' :
              activeUploads'[id] = "uploadData"
        /\ restarts' = restarts => OthersLeaveRecord
      ]_vars

\* the step is the answer to a GET of the uploads routes
Answered == response' # response

\* the fields of a record that hold a value (JSON has no undefined)
Defined(data_) ==
    DOMAIN data_ \ {k \in DOMAIN data_ \cap {"startDate", "endDate"} : data_[k] = undefined}

\* r is the record the Map holds under id, with that id
Shows(r, id) ==
    /\ DOMAIN r = Defined(get(id)) \cup {"id"}
    /\ r.id = id
    /\ \A k \in Defined(get(id)) : r[k] = get(id)[k]

\* C26: a GET of the uploads routes changes neither the Map, nor a record,
\* nor a progress file; GET /api/uploads answers with exactly the Map's
\* records, each with its id; GET /api/uploads/:id answers with the record
\* stored under id, and with 404 when the Map has no such id
ReadsArePure ==
    [][ Answered
          => /\ UNCHANGED <<activeUploads, uploadData, data, disk, writes, job, proc>>
             /\ response'.route = "/api/uploads"
                   => /\ response'.status = 200
                      /\ Cardinality(response'.body) = Cardinality(DOMAIN activeUploads)
                      /\ \A id \in DOMAIN activeUploads :
                            \E r \in response'.body : Shows(r, id)
             /\ response'.route = "/api/uploads/:id"
                   => IF response'.id \in DOMAIN activeUploads
                      THEN response'.status = 200 /\ Shows(response'.body, response'.id)
                      ELSE response'.status = 404
      ]_vars

\* the list was asked for while the Map held two records, one of them of a
\* job at work that had written output; the Map holds them as before
ReadsArePureWitness ==
    /\ response.route = "/api/uploads"
    /\ Cardinality(response.body) = 2
    /\ DOMAIN activeUploads = {1, 2}
    /\ \E r \in response.body :
          /\ r.status = "running" /\ r.output # ""
          /\ job[r.id].pc = "running"
          /\ Shows(r, r.id)

(* ---------------------- more claims about the script ------------------- *)
\* the lines a run added to the ledger of directory dir
Added(r, dir) ==
    SubSeq(r.sh.ledgers[dir], Len(Ledger(r.env.ledgers, dir)) + 1, Len(r.sh.ledgers[dir]))

\* C27: a run leaves every line of every ledger it found as it was and where
\* it was, and adds lines to the ledger of the directory it uploads from
\* only: one line, with the file's relative path and hash, for each transfer
\* it made, in their order; so none in a dry run, none for a file it
\* skipped, none for a transfer that failed
LedgerOnlyGrows ==
    Happened(run)
    => /\ DOMAIN run.env.ledgers \subseteq DOMAIN run.sh.ledgers
       /\ \A dir \in DOMAIN run.sh.ledgers :
             LET before == Ledger(run.env.ledgers, dir)
                 after == run.sh.ledgers[dir]
                 s3 == run.sh.s3
             IN /\ Len(after) >= Len(before)
                /\ SubSeq(after, 1, Len(before)) = before
                /\ Added(run, dir) # <<>>
                      => /\ ~run.a.DRY_RUN
                         /\ dir = RunDir(run)
                         /\ Len(Added(run, dir)) = Len(s3)
                         /\ \A i \in 1..Len(s3) :
                               /\ Added(run, dir)[i] = run.env.now \o "|"
                                      \o StripPrefix(s3[i].file, dir) \o "|" \o s3[i].hash
                               /\ Took(run.sh, StripPrefix(s3[i].file, dir), "upload")
                               /\ \A why \in SkipKinds :
                                     ~Took(run.sh, StripPrefix(s3[i].file, dir), why)
       /\ run.sh.s3 # <<>> => RunDir(run) \in DOMAIN run.sh.ledgers
                              /\ Added(run, RunDir(run)) # <<>>

\* a live upload that found a ledger with lines, skipped a file, transferred
\* another and added its line
LedgerOnlyGrowsWitness ==
    /\ LiveUpload(run)
    /\ Ledger(run.env.ledgers, run.a.SOURCE_DIR) # <<>>
    /\ Len(Added(run, run.a.SOURCE_DIR)) = Len(run.sh.s3)
    /\ run.sh.s3 # <<>>
    /\ \E e \in Range(run.sh.log) : e[2] \in SkipKinds

\* the directories and the files found in directory base and below it
Below(dirs, fs, base) ==
    [dirs |-> {d \in dirs : d = base \/ (Len(d) > Len(base)
                                         /\ SubSeq(d, 1, Len(base) + 1) = base \o "/")},
     files |-> FilesIn(fs, base)]

\* C28: a dry run changes nothing in the file system: a dry import leaves
\* the local import base as it was, no directory made in it and no file
\* written; a dry upload leaves the source directory as it was, its ledger
\* with it
DryRunLeavesFiles ==
    [][(runs' = runs + 1 /\ run'.a.DRY_RUN)
         => /\ dotUploaded' = dotUploaded
            /\ run'.a.IMPORT_MODE
                  => Below(folders', photos', config.LOCAL_IMPORT_BASE)
                       = Below(folders, photos, config.LOCAL_IMPORT_BASE)
            /\ ~run'.a.IMPORT_MODE
                  => Below(folders', photos', run'.a.SOURCE_DIR)
                       = Below(folders, photos, run'.a.SOURCE_DIR)]_vars

\* the day a photograph was taken on: that of its EXIF DateTimeOriginal
\* ("YYYY:MM:DD hh:mm:ss") when it has one, else the day of its file
CaptureDay(f) ==
    IF f.exif # ""
    THEN SubSeq(f.exif, 1, 4) \o "-" \o SubSeq(f.exif, 6, 7) \o "-" \o SubSeq(f.exif, 9, 10)
    ELSE f.mdate

\* the branches the run took for the file of that name
Branches(sh, name) == {e[2] : e \in {x \in Range(sh.log) : x[1] = name}}

\* C29: the range filter of an upload and the exact-date filter of an import
\* decide on the day the photograph was taken (EXIF first, the file's day
\* only without it): a file the run came to is left out by the filter if and
\* only if that day is outside the bounds, or is not the day asked for
FiltersUseCaptureDay ==
    Happened(run)
    => /\ ~run.a.IMPORT_MODE
             => \A f \in Range(find(run.env.fs, run.a.SOURCE_DIR)) :
                   \A why \in Branches(run.sh, StripPrefix(f.path, run.a.SOURCE_DIR))
                                \ {"excluded"} :
                       why = "out of range"
                          <=> \/ run.a.START_DATE # ""
                                   /\ StrLess(CaptureDay(f), run.a.START_DATE)
                              \/ run.a.END_DATE # ""
                                   /\ StrLess(run.a.END_DATE, CaptureDay(f))
       /\ run.a.IMPORT_MODE
             => \A f \in Range(find(run.env.fs, run.a.SD_PATH)) :
                   \A why \in Branches(run.sh, f.path) :
                       why = "other date" <=> CaptureDay(f) # run.a.IMPORT_DATE

\* the places, in the list find gives of the card, of the files of the day
\* asked for
Selected(r) ==
    {i \in 1..Len(find(r.env.fs, r.a.SD_PATH)) :
        find(r.env.fs, r.a.SD_PATH)[i].mdate = r.a.IMPORT_DATE}

\* the file at place i finds its name taken in the destination: by a file
\* that was there before the run, or by one the run copied before it
NameTaken(r, i) ==
    LET card == find(r.env.fs, r.a.SD_PATH)
        name == basename(card[i].path)
    IN \/ \E g \in FilesIn(r.env.fs, RunDir(r)) : g.path = RunDir(r) \o "/" \o name
       \/ /\ ~r.a.DRY_RUN
          /\ \E j \in Selected(r) : j < i /\ basename(card[j].path) = name

\* C30: an import leaves every file it finds in the destination folder as it
\* is; for each file of the day whose name is taken there it copies nothing
\* and counts one skip; and it counts as imported the files it copied
ImportNeverOverwrites ==
    (Happened(run) /\ run.a.IMPORT_MODE /\ "LOCAL_IMPORT_BASE" \in DOMAIN run.env.environ)
    => LET before == FilesIn(run.env.fs, RunDir(run))
           after == FilesIn(run.sh.fs, RunDir(run))
       IN /\ before \subseteq after
          /\ \A g \in after : \A h \in after : g.path = h.path => g = h
          /\ \A i \in 1..Len(run.sh.fs) : \A j \in 1..Len(run.sh.fs) :
                run.sh.fs[i].path = run.sh.fs[j].path => i = j
          /\ run.sh.skipped_count = Cardinality({i \in Selected(run) : NameTaken(run, i)})
          /\ run.sh.imported_count = run.sh.copies
          /\ run.sh.copies = Cardinality(after) - Cardinality(before)

(* ------- imports from the terminal with bounds and with copies that ----- *)
(* ------- fail (lines 1174-1248, 1393-1435) ------------------------------ *)
\* the copy of a run that fails (0: none)
MaxCopyFailAt == 2

\* a card with one day's roll: three names, and one of them again in a
\* second folder
RollFiles ==
    << [path |-> "/sd/DCIM/100/IMG_1.jpg", mdate |-> "2024-12-25", exif |-> "",
        hash |-> "r1", size |-> 1024],
       [path |-> "/sd/DCIM/100/IMG_2.jpg", mdate |-> "2024-12-25", exif |-> "",
        hash |-> "r2", size |-> 2048],
       [path |-> "/sd/DCIM/100/IMG_3.CR2", mdate |-> "2024-12-25",
        exif |-> "2024:12:25 08:00:00", hash |-> "r3", size |-> 4096],
       [path |-> "/sd/DCIM/101/IMG_1.jpg", mdate |-> "2024-12-25", exif |-> "",
        hash |-> "r4", size |-> 512] >>

\* --import with --start or --end on the same command line: the case
\* statement of lines 1395-1435 takes the options in any combination
BoundedImportArgs ==
    { [SOURCE_DIR |-> "", START_DATE |-> b[1], END_DATE |-> b[2], DRY_RUN |-> d,
       IMPORT_MODE |-> TRUE, SD_PATH |-> CardDir, IMPORT_DATE |-> "2024-12-25"] :
        b \in {<<"", "">>, <<"2025-01-01", "">>, <<"", "2024-12-31">>},
        d \in BOOLEAN }

\* the answer of POST /api/import when the script has closed (lines 653-667)
ImportAnswer(sh) ==
    IF sh.code = 0
    THEN [status |-> 200, success |-> TRUE, output |-> sh.out,
          message |-> "Import completed successfully"]
    ELSE [status |-> 500, success |-> FALSE, output |-> sh.out,
          error |-> IF sh.err # "" THEN sh.err ELSE "Import failed"]

InitImports ==
    /\ arithExit \in BOOLEAN
    /\ dirExists = TRUE
    /\ disk = <<>>
    /\ writes = {}
    /\ activeUploads = <<>>
    /\ uploadData = <<>>
    /\ data = <<>>
    /\ job = <<>>
    /\ proc = <<>>
    /\ boot = [BootStart EXCEPT !.pc = "loop"]
    /\ nextId = 1
    /\ now = 0
    /\ restarts = 0
    /\ activeUploadId = 0
    /\ console = {}
    /\ config = Config
    /\ exported = Exported
    /\ photos = RollFiles
    /\ folders = ShootFolders \cup {CONFIG_DIR}
    /\ dotUploaded = NoLedgers
    /\ bucket = <<>>
    /\ runs = 0
    /\ run = NoRun
    /\ prev = NoRun
    /\ walk = <<>>
    /\ settings = SettingsStart
    /\ form = FormStart
    /\ response = NoResponse

\* backup-photos.sh --import dir --import-date d [--start d] [--end d]
\* [--dry-run], one of its copies failing or none
ImportCopying(a, failCopyAt, partial) ==
    /\ a.IMPORT_MODE
    /\ Ran(a, [Env(0, TRUE) EXCEPT !.failCopyAt = failCopyAt, !.partial = partial])

NextImports ==
    \E a \in BoundedImportArgs : \E failCopyAt \in 0..MaxCopyFailAt :
        \E partial \in {p \in BOOLEAN : failCopyAt > 0 \/ ~p} :
            ImportCopying(a, failCopyAt, partial)

SpecImports == InitImports /\ [][NextImports]_vars

\* upload_to_s3 has been entered: its first lines are on stdout
UploadPhase(r) == includes(r.sh.out, "bakkuappu kaishi")

\* the files of the card a run copied, by where find lists them
Copied(r) ==
    {i \in 1..Len(find(r.env.fs, r.a.SD_PATH)) :
        \E j \in 1..Len(r.sh.log) :
            r.sh.log[j] = <<find(r.env.fs, r.a.SD_PATH)[i].path, "copy">>}

\* C31: an import whose walk of the card is over enters the upload phase
\* exactly when it copied a file or is a dry run; the phase works on the
\* folder named after the day and leaves out none of the files just copied
\* for its date, whatever else is on the command line.
ImportUploadsAll ==
    (Happened(run) /\ run.a.IMPORT_MODE /\ run.env.failCopyAt = 0)
    => /\ UploadPhase(run) <=> (run.sh.copies > 0 \/ run.a.DRY_RUN)
       /\ UploadPhase(run)
          => /\ includes(run.sh.out, "sosu: " \o RunDir(run) \o NC)
             /\ \A i \in Copied(run) :
                   ~Took(run.sh, StripPrefix(RunDir(run) \o "/"
                            \o basename(find(run.env.fs, run.a.SD_PATH)[i].path), RunDir(run)),
                         "out of range")

\* an import with --end before the day of the copy: the upload phase is
\* entered and skips the file the import has just copied as out of range
BoundedPhaseSkipsCopies ==
    /\ Happened(run) /\ run.a.IMPORT_MODE /\ ~run.a.DRY_RUN
    /\ ~arithExit /\ run.env.failCopyAt = 0
    /\ run.a.END_DATE = "2024-12-31"
    /\ UploadPhase(run) /\ run.sh.copies > 0 /\ run.sh.code = 0
    /\ run.sh.transfers = 0
    /\ \A i \in Copied(run) :
          Took(run.sh, StripPrefix(RunDir(run) \o "/"
                   \o basename(find(run.env.fs, run.a.SD_PATH)[i].path), RunDir(run)),
               "out of range")

\* the passes of the import loop that came to cp
Attempts(r) == Count(r.sh.log, {"copy"})

\* a live import has come to the copy that fails
CopyFailed(r) ==
    /\ Happened(r) /\ r.a.IMPORT_MODE /\ ~r.a.DRY_RUN
    /\ r.env.failCopyAt > 0 /\ Attempts(r) >= r.env.failCopyAt

\* the file of the card the pass j of the log was about has a whole copy in
\* the destination
Kept(r, j) ==
    \E g \in FilesIn(r.sh.fs, RunDir(r)) :
        \E f \in Range(r.env.fs) :
            /\ f.path = r.sh.log[j][1]
            /\ g.path = RunDir(r) \o "/" \o basename(f.path)
            /\ g.hash = f.hash /\ g.size = f.size

\* C32: a live import whose copy fails ends there: the failing file is the
\* last one the walk looked at, nothing is copied after it, the upload phase
\* is not entered, the exit code is not 0 and POST /api/import answers 500
\* with success false, and every file copied before is whole in the
\* destination.
CopyErrorIsFatal ==
    CopyFailed(run)
    => /\ run.sh.code # 0
       /\ ImportAnswer(run.sh).status = 500 /\ ~ImportAnswer(run.sh).success
       /\ ~UploadPhase(run)
       /\ run.sh.transfers = 0
       /\ Attempts(run) = run.env.failCopyAt
       /\ run.sh.log[Len(run.sh.log)][2] = "copy"
       /\ run.sh.copies = run.env.failCopyAt - 1
       /\ \A j \in 1..(Len(run.sh.log) - 1) : run.sh.log[j][2] = "copy" => Kept(run, j)
       /\ Cardinality({g \in FilesIn(run.sh.fs, RunDir(run)) : g.hash # ""})
             = Cardinality({g \in FilesIn(run.env.fs, RunDir(run)) : g.hash # ""})
               + run.sh.copies

\* the second copy of an import fails: the first file is in the destination,
\* a third file of the day is on the card and not in the destination
CopyErrorIsFatalWitness ==
    /\ CopyFailed(run) /\ run.env.failCopyAt = 2
    /\ FilesIn(run.env.fs, RunDir(run)) = {}
    /\ run.sh.code = 1 /\ run.sh.copies = 1
    /\ Kept(run, 1)
    /\ \E f \in Range(find(run.env.fs, run.a.SD_PATH)) :
          /\ f.mdate = run.a.IMPORT_DATE
          /\ \A j \in 1..Len(run.sh.log) : run.sh.log[j][1] # f.path
          /\ \A g \in FilesIn(run.sh.fs, RunDir(run)) : basename(g.path) # basename(f.path)

(* ------- the extensions of the configuration and the files find lists --- *)
(* ------- (lines 1189-1200, 1238, 1259-1270, 1375) ------------------------ *)
\* a configuration whose owner has added scans to the compressed formats
WithTif == [Config EXCEPT !.JPG_EXTENSIONS = "jpg,jpeg,heic,heif,tif"]

\* a scan in the folder of photographs and one on the card
ScanFiles ==
    << [path |-> "/h/Pictures/shoot/scans/s.TIF", mdate |-> "2024-12-25", exif |-> "",
        hash |-> "t1", size |-> 8192],
       [path |-> "/sd/DCIM/100/S_1.tif", mdate |-> "2024-12-25", exif |-> "",
        hash |-> "t2", size |-> 8192] >>

\* ext_pattern (lines 1190-1200 and 1260-1270): the extensions of
\* RAW_EXTENSIONS and JPG_EXTENSIONS, which the script joins with "|"
ext_pattern(cfg) == Range(Fields(cfg.RAW_EXTENSIONS \o "," \o cfg.JPG_EXTENSIONS))

InitExtensions ==
    /\ arithExit \in BOOLEAN
    /\ dirExists = TRUE
    /\ disk = <<>>
    /\ writes = {}
    /\ activeUploads = <<>>
    /\ uploadData = <<>>
    /\ data = <<>>
    /\ job = <<>>
    /\ proc = <<>>
    /\ boot = [BootStart EXCEPT !.pc = "loop"]
    /\ nextId = 1
    /\ now = 0
    /\ restarts = 0
    /\ activeUploadId = 0
    /\ console = {}
    /\ config \in {Config, NoHeic, WithTif}
    /\ exported = [LOCAL_IMPORT_BASE |-> config.LOCAL_IMPORT_BASE,
                   RAW_EXTENSIONS |-> config.RAW_EXTENSIONS,
                   JPG_EXTENSIONS |-> config.JPG_EXTENSIONS]
    /\ photos = ShootFiles \o CardFiles \o ScanFiles
    /\ folders = ShootFolders \cup {CONFIG_DIR, "/h/Pictures/shoot/scans"}
    /\ dotUploaded = NoLedgers
    /\ bucket = <<>>
    /\ runs = 0
    /\ run = NoRun
    /\ prev = NoRun
    /\ walk = <<>>
    /\ settings = SettingsStart
    /\ form = FormStart
    /\ response = NoResponse

SpecExtensions == InitExtensions /\ [][NextScript]_vars

\* the directory a run walks first: the card of an import, the source of an
\* upload
Walked(r) == IF r.a.IMPORT_MODE THEN r.a.SD_PATH ELSE r.a.SOURCE_DIR

\* C33: the files a run enumerates are the files below the directory it
\* walks, at any depth, whose extension in lower case is one of the
\* configured raw or compressed extensions: all of these and no other,
\* whatever the configuration lists.
EnumeratesConfiguredExtensions ==
    Happened(run)
    => Range(find(run.env.fs, Walked(run)))
          = {f \in FilesIn(run.env.fs, Walked(run)) :
                ToLower(Extension(f.path)) \in ext_pattern(run.env.cfg)}

\* an upload that passes over a scan although tif is configured, and one that
\* walks over a HEIC file although heic is not configured
HardCodedNames ==
    /\ Happened(run) /\ ~run.a.IMPORT_MODE
    /\ \E f \in FilesIn(run.env.fs, Walked(run)) :
          \/ /\ ToLower(Extension(f.path)) \in ext_pattern(run.env.cfg)
             /\ f \notin Range(find(run.env.fs, Walked(run)))
          \/ /\ ToLower(Extension(f.path)) \notin ext_pattern(run.env.cfg)
             /\ f \in Range(find(run.env.fs, Walked(run)))

(* ------- the keys of the objects, on macOS and elsewhere ----------------- *)
(* ------- (lines 1058-1078, 1290-1291, 1324-1345, 1362) ------------------- *)
\* a folder with a shoot of two days, the camera's numbering begun again on
\* the second day; one raw file; files with and without EXIF
KeyFiles ==
    << [path |-> "/h/Pictures/shoot/day1/IMG_1.jpg", mdate |-> "2024-12-26",
        exif |-> "2024:11:30 10:00:00", hash |-> "k1", size |-> 1024],
       [path |-> "/h/Pictures/shoot/day2/IMG_1.jpg", mdate |-> "2024-12-25",
        exif |-> "2024:11:30 18:00:00", hash |-> "k2", size |-> 1024],
       [path |-> "/h/Pictures/shoot/day2/IMG_2.CR2", mdate |-> "2024-12-25",
        exif |-> "2024:12:01 08:00:00", hash |-> "k3", size |-> 4096],
       [path |-> "/h/Pictures/shoot/c.jpg", mdate |-> "2024-12-25", exif |-> "",
        hash |-> "k4", size |-> 1024] >>

InitKeys ==
    /\ arithExit \in BOOLEAN
    /\ dirExists = TRUE
    /\ disk = <<>>
    /\ writes = {}
    /\ activeUploads = <<>>
    /\ uploadData = <<>>
    /\ data = <<>>
    /\ job = <<>>
    /\ proc = <<>>
    /\ boot = [BootStart EXCEPT !.pc = "loop"]
    /\ nextId = 1
    /\ now = 0
    /\ restarts = 0
    /\ activeUploadId = 0
    /\ console = {}
    /\ config = Config
    /\ exported \in {NoEnviron, Exported}
    /\ photos = KeyFiles
    /\ folders = ShootFolders \cup {CONFIG_DIR, "/h/Pictures/shoot/day1", "/h/Pictures/shoot/day2"}
    /\ dotUploaded = NoLedgers
    /\ bucket = <<>>
    /\ runs = 0
    /\ run = NoRun
    /\ prev = NoRun
    /\ walk = <<>>
    /\ settings = SettingsStart
    /\ form = FormStart
    /\ response = NoResponse

\* backup-photos.sh --source dir [--start d] [--end d] [--dry-run] on macOS
\* or on another system
UploadOn(a, failAt, darwin) ==
    /\ ~a.IMPORT_MODE
    /\ Ran(a, [Env(failAt, TRUE) EXCEPT !.darwin = darwin])

NextKeys ==
    \/ \E a \in UploadArgs : \E failAt \in ScriptFailAts(a) : \E darwin \in BOOLEAN :
          UploadOn(a, failAt, darwin)
    \/ \E i \in 1..Len(KeyFiles) : Edit(i)

SpecKeys == InitKeys /\ [][NextKeys]_vars

\* the year and the month of a day, "YYYY-MM", whether the day is written
\* with colons or with dashes
Month(day) == SubSeq(day, 1, 4) \o "-" \o SubSeq(day, 6, 7)

\* the file at that path when the run began
FileAt(r, path) == CHOOSE f \in Range(r.env.fs) : f.path = path

\* C34: every object a run stores has the key prefix/year-month/name: the
\* configured raw prefix for a raw file and the configured compressed prefix
\* for a compressed one, the year and month of the EXIF capture time when the
\* file has one and of its modification time otherwise, and the base name of
\* the file.
KeyIsPrefixMonthName ==
    Happened(run)
    => \A i \in 1..Len(run.sh.s3) :
          \E f \in {FileAt(run, run.sh.s3[i].file)} :
             run.sh.s3[i].key
                = "s3://" \o run.env.cfg.S3_BUCKET \o "/"
                  \o (IF get_file_type(f.path, run.env.cfg) = "raw"
                      THEN run.env.cfg.S3_PREFIX_RAW ELSE run.env.cfg.S3_PREFIX_JPG)
                  \o "/" \o Month(IF f.exif # "" THEN f.exif ELSE f.mdate)
                  \o "/" \o basename(f.path)

\* a file without EXIF stored off macOS: the folder of its key is the whole
\* day, not the month
KeyHoldsTheDay ==
    /\ Happened(run) /\ ~run.env.darwin
    /\ \E i \in 1..Len(run.sh.s3) :
          /\ FileAt(run, run.sh.s3[i].file).exif = ""
          /\ run.sh.s3[i].key = "s3://b/jpg/2024-12-25/c.jpg"

\* C40: within one upload run two different files of the source are never
\* given the same destination key, two files of the same name in different
\* folders of the source included.
KeysAreDistinct ==
    Happened(run)
    => \A i \in 1..Len(run.sh.s3) : \A j \in 1..Len(run.sh.s3) :
          run.sh.s3[i].file # run.sh.s3[j].file => run.sh.s3[i].key # run.sh.s3[j].key

\* one run stores day1/IMG_1.jpg and then day2/IMG_1.jpg under one key: the
\* second object takes the place of the first, and the ledger has both as
\* uploaded
SecondTakesThePlace ==
    /\ LiveUpload(run) /\ run.sh.code = 0
    /\ \E i \in 1..Len(run.sh.s3) : \E j \in (i + 1)..Len(run.sh.s3) :
          /\ run.sh.s3[i].file = "/h/Pictures/shoot/day1/IMG_1.jpg"
          /\ run.sh.s3[j].file = "/h/Pictures/shoot/day2/IMG_1.jpg"
          /\ run.sh.s3[i].key = run.sh.s3[j].key
          /\ run.sh.s3[i].hash # run.sh.s3[j].hash
    /\ \A f \in FilesIn(run.env.fs, ShootDir) :
          basename(f.path) = "IMG_1.jpg"
          => Entries(run.sh.ledgers[ShootDir], ShootDir, f) # {}

(* ------- the request of an upload, from the body to the script's -------- *)
(* ------- variables (lines 696-770, 1393-1435) ---------------------------- *)
\* a name the server finds under Pictures, an absolute path, and a name it
\* finds nowhere; each date given, given empty, or left out; dryRun true,
\* false, or left out
RoundTripRequests ==
    { [k \in {"sourcePath"} \cup {x \in {"startDate", "endDate", "dryRun"} : q[x] # undefined}
          |-> IF k = "dryRun" THEN q.dryRun = "true" ELSE q[k]] :
        q \in [sourcePath : {"trip", "/h/Pictures/trip", "nowhere"},
               startDate : {undefined, "", "2024-12-24"},
               endDate : {undefined, "2024-12-31"},
               dryRun : {undefined, "true", "false"}] }

NextRoundTrip ==
    \/ \E body \in RoundTripRequests : PostUpload(body, 1, MaxLive)
    \/ \E id \in Ids : InitialSaved(id)
    \/ \E id \in Ids : Respond(id, {0})
    \/ \E id \in Ids : StdoutData(id, FALSE)
    \/ \E id \in Ids : StderrData(id)
    \/ \E id \in Ids : Close(id)
    \/ \E id \in Ids : FinalSaved(id)
    \/ \E w \in writes : ProgressSaved(w)

SpecRoundTrip == InitSplit /\ [][NextRoundTrip]_vars

\* the value of a field of a request when it is given: present and not empty
Given(body, k) == k \in DOMAIN body /\ body[k] # ""

\* the record of job id and the arguments its script was started with say the
\* same: --source with the record's path, --start and --end with the record's
\* dates when it has them, --dry-run when its dryRun is true, and the
\* script's argument loop reads these values and no other out of them
ScriptGotRecord(id) ==
    LET r == uploadData[id]
        argv == proc[id].argv
        p == ParseArgs(argv, NoArgs)
        has(o) == \E i \in 1..Len(argv) : argv[i] = o
    IN /\ p.stop = ""
       /\ SubSeq(argv, 1, 2) = <<"--source", r.sourcePath>>
       /\ p.args.SOURCE_DIR = r.sourcePath
       /\ has("--start") <=> Truthy(r.startDate)
       /\ p.args.START_DATE = (IF Truthy(r.startDate) THEN r.startDate ELSE "")
       /\ has("--end") <=> Truthy(r.endDate)
       /\ p.args.END_DATE = (IF Truthy(r.endDate) THEN r.endDate ELSE "")
       /\ has("--dry-run") <=> r.dryRun
       /\ p.args.DRY_RUN = r.dryRun
       /\ ~p.args.IMPORT_MODE /\ p.args.SD_PATH = "" /\ p.args.IMPORT_DATE = ""

\* C35: the record POST /api/upload makes holds the request's values (the
\* path as resolved, the two dates as given, dryRun as given and false when
\* left out), and the script of every job is started with --source and that
\* path, --start and --end exactly when the date is given, --dry-run exactly
\* when dryRun is true, which its argument loop reads back as the same source
\* directory, dates and dry-run flag.
UploadRequestRoundTrips ==
    [][ /\ \A body \in RoundTripRequests :
              PostUpload(body, 1, MaxLive)
              => /\ uploadData'[nextId].sourcePath = resolveFullPath(body.sourcePath)
                 /\ uploadData'[nextId].startDate
                       = (IF "startDate" \in DOMAIN body THEN body.startDate ELSE undefined)
                 /\ uploadData'[nextId].endDate
                       = (IF "endDate" \in DOMAIN body THEN body.endDate ELSE undefined)
                 /\ uploadData'[nextId].dryRun
                       = ("dryRun" \in DOMAIN body /\ body.dryRun)
                 /\ Given(body, "startDate") <=> Truthy(uploadData'[nextId].startDate)
                 /\ Given(body, "endDate") <=> Truthy(uploadData'[nextId].endDate)
        /\ \A id \in DOMAIN proc' \cap DOMAIN uploadData' : ScriptGotRecord(id)'
      ]_vars

\* the script of a job asked for by name, with both dates and as a dry run,
\* has been started on the folder found under Pictures
UploadRequestRoundTripsWitness ==
    \E id \in DOMAIN proc \cap DOMAIN uploadData :
        /\ proc[id].argv = <<"--source", "/h/Pictures/trip", "--start", "2024-12-24",
                             "--end", "2024-12-31", "--dry-run">>
        /\ uploadData[id].sourcePath = "/h/Pictures/trip"
        /\ uploadData[id].startDate = "2024-12-24" /\ uploadData[id].endDate = "2024-12-31"
        /\ uploadData[id].dryRun
        /\ includes(proc[id].out, "sosu: /h/Pictures/trip")
        /\ includes(proc[id].out, "2024-12-24 ~ 2024-12-31")

(* ------- two uploads of one directory at work at the same time --------- *)
(* ------- (lines 696-770, 1286-1375) -------------------------------------- *)
\* the scripts at work at the same time
MaxWalkers == 2

\* what both were asked: a live upload of the folder, no bounds
WalkArgs ==
    [SOURCE_DIR |-> ShootDir, START_DATE |-> "", END_DATE |-> "", DRY_RUN |-> FALSE,
     IMPORT_MODE |-> FALSE, SD_PATH |-> "", IMPORT_DATE |-> ""]

\* the readings of the clock of `date -Iseconds`: the same second or not
WalkClocks == {"T1", "T2"}

InitWalks ==
    /\ arithExit \in BOOLEAN
    /\ dirExists = TRUE
    /\ disk = <<>>
    /\ writes = {}
    /\ activeUploads = <<>>
    /\ uploadData = <<>>
    /\ data = <<>>
    /\ job = <<>>
    /\ proc = <<>>
    /\ boot = [BootStart EXCEPT !.pc = "loop"]
    /\ nextId = 1
    /\ now = 0
    /\ restarts = 0
    /\ activeUploadId = 0
    /\ console = {}
    /\ config = Config
    /\ exported = NoEnviron
    /\ photos = ShootFiles
    /\ folders = ShootFolders \cup {CONFIG_DIR}
    /\ dotUploaded = NoLedgers
    /\ bucket = <<>>
    /\ runs = 0
    /\ run = NoRun
    /\ prev = NoRun
    /\ walk = <<>>
    /\ settings = SettingsStart
    /\ form = FormStart
    /\ response = NoResponse

\* what a step of a script at work leaves alone
NotWalk == <<arithExit, serverVars, pageVars, config, exported, photos, folders, runs, run, prev>>

\* the file the script j is at
WalkFile(j) == find(photos, WalkArgs.SOURCE_DIR)[walk[j].i]

\* the script is spawned (line 770) and comes to its loop (line 1287): the
\* counters of lines 1252-1255
StartWalk(j, clock) ==
    /\ j = Len(walk) + 1 /\ j <= MaxWalkers
    /\ walk' = Append(walk, [i |-> 0, pc |-> "read", now |-> clock, wrote |-> <<>>,
                             file_count |-> 0, skip_count |-> 0, upload_count |-> 0,
                             exited |-> FALSE, code |-> 0])
    /\ UNCHANGED <<NotWalk, dotUploaded, bucket>>

\* read of line 1287 and ((file_count++)) of line 1288; after the last file
\* the summary and the end of the script
ReadNext(j) ==
    /\ j \in DOMAIN walk /\ walk[j].pc = "read"
    /\ walk' = [walk EXCEPT ![j] =
                  IF @.i = Len(find(photos, WalkArgs.SOURCE_DIR))
                  THEN [@ EXCEPT !.pc = "done", !.exited = TRUE]
                  ELSE LET s1 == Incr([@ EXCEPT !.i = @ + 1], "file_count", arithExit)
                       IN [s1 EXCEPT !.pc = IF s1.exited THEN "done" ELSE "check"]]
    /\ UNCHANGED <<NotWalk, dotUploaded, bucket>>

\* the tests of lines 1294-1343 on the file, the ledger read as it is now
CheckFile(j) ==
    /\ j \in DOMAIN walk /\ walk[j].pc = "check"
    /\ LET f == WalkFile(j)
           skip == \/ Excluded(basename(f.path), config)
                   \/ ~is_in_date_range(f, WalkArgs.START_DATE, WalkArgs.END_DATE)
                   \/ is_uploaded(Ledger(dotUploaded, WalkArgs.SOURCE_DIR),
                                  WalkArgs.SOURCE_DIR, f)
                   \/ get_file_type(f.path, config) = "unknown"
       IN walk' = [walk EXCEPT ![j] =
                     IF skip
                     THEN LET s1 == Incr(@, "skip_count", arithExit)
                          IN [s1 EXCEPT !.pc = IF s1.exited THEN "done" ELSE "read"]
                     ELSE [@ EXCEPT !.pc = "transfer"]]
    /\ UNCHANGED <<NotWalk, dotUploaded, bucket>>

\* aws s3 cp of line 1362
TransferFile(j) ==
    /\ j \in DOMAIN walk /\ walk[j].pc = "transfer"
    /\ LET f == WalkFile(j)
       IN bucket' = Append(bucket,
                       [file |-> f.path, hash |-> f.hash,
                        key |-> "s3://" \o config.S3_BUCKET \o "/"
                                \o (IF get_file_type(f.path, config) = "raw"
                                    THEN config.S3_PREFIX_RAW ELSE config.S3_PREFIX_JPG)
                                \o "/" \o get_year_month(f, TRUE) \o "/" \o basename(f.path)])
    /\ walk' = [walk EXCEPT ![j].pc = "record"]
    /\ UNCHANGED <<NotWalk, dotUploaded>>

\* record_uploaded of line 1366 and ((upload_count++)) of line 1367
RecordFile(j) ==
    /\ j \in DOMAIN walk /\ walk[j].pc = "record"
    /\ LET ledger == Ledger(dotUploaded, WalkArgs.SOURCE_DIR)
           line == record_uploaded(<<>>, WalkArgs.SOURCE_DIR, WalkFile(j), walk[j].now)[1]
       IN /\ dotUploaded' = Put(dotUploaded, WalkArgs.SOURCE_DIR,
                                record_uploaded(ledger, WalkArgs.SOURCE_DIR, WalkFile(j),
                                                walk[j].now))
          /\ walk' = [walk EXCEPT ![j] =
                        LET s1 == Incr([@ EXCEPT !.wrote = Append(@, line)],
                                       "upload_count", arithExit)
                        IN [s1 EXCEPT !.pc = IF s1.exited THEN "done" ELSE "read"]]
    /\ UNCHANGED <<NotWalk, bucket>>

NextWalks ==
    \/ \E j \in 1..MaxWalkers : \E clock \in WalkClocks : StartWalk(j, clock)
    \/ \E j \in 1..MaxWalkers : ReadNext(j)
    \/ \E j \in 1..MaxWalkers : CheckFile(j)
    \/ \E j \in 1..MaxWalkers : TransferFile(j)
    \/ \E j \in 1..MaxWalkers : RecordFile(j)

SpecWalks == InitWalks /\ [][NextWalks]_vars

\* how often a line is in a sequence of lines
Times(line, lines) == Cardinality({k \in 1..Len(lines) : lines[k] = line})

\* how often the scripts 1..j have written a line
RECURSIVE TimesWritten(_, _)
TimesWritten(line, j) ==
    IF j = 0 THEN 0 ELSE Times(line, walk[j].wrote) + TimesWritten(line, j - 1)

OneTransferPerFile ==
    \A f \in Range(photos) :
        /\ Cardinality({k \in 1..Len(bucket) :
                           bucket[k].file = f.path /\ bucket[k].hash = f.hash}) <= 1
        /\ Cardinality(Entries(Ledger(dotUploaded, WalkArgs.SOURCE_DIR),
                               WalkArgs.SOURCE_DIR, f)) <= 1

\* both scripts have found the first file in no ledger entry, both have sent
\* it and both have recorded it
BothSentTheFile ==
    /\ DOMAIN walk = {1, 2}
    /\ \E f \in Range(photos) :
          /\ Cardinality({k \in 1..Len(bucket) : bucket[k].file = f.path}) = 2
          /\ Cardinality(Entries(Ledger(dotUploaded, WalkArgs.SOURCE_DIR),
                                 WalkArgs.SOURCE_DIR, f)) = 2
          /\ walk[1].upload_count >= 1 /\ walk[2].upload_count >= 1

(* ----------------- more claims about one run of the script -------------- *)
\* C37: after a live upload that ends with exit code 0, every file find
\* lists that holds no exclusion pattern, lies within the bounds and is of a
\* known type has an entry in the ledger of the directory with the relative
\* path and the hash it has when the run ends: it was sent in this run or in
\* one before.
BackupComplete ==
    (LiveUpload(run) /\ run.sh.code = 0)
    => \A f \in Range(find(run.sh.fs, run.a.SOURCE_DIR)) :
          Chosen(f, run.a, run.env.cfg)
          => Entries(Ledger(run.sh.ledgers, run.a.SOURCE_DIR), run.a.SOURCE_DIR, f) # {}

\* a live upload has ended with exit code 0 and has passed over p.1.jpg as
\* uploaded, on the entry of p-1.jpg: the file is in no entry and in no object
PassedOverUnsent ==
    /\ LiveUpload(run) /\ run.sh.code = 0
    /\ \E f \in Range(find(run.sh.fs, run.a.SOURCE_DIR)) :
          /\ Chosen(f, run.a, run.env.cfg)
          /\ Took(run.sh, StripPrefix(f.path, run.a.SOURCE_DIR), "uploaded")
          /\ Entries(Ledger(run.sh.ledgers, run.a.SOURCE_DIR), run.a.SOURCE_DIR, f) = {}
          /\ \A k \in 1..Len(run.sh.s3) : run.sh.s3[k].file # f.path
          /\ prev = NoRun

\* the script of run r after its first k passes of the loop of upload_to_s3
AfterPasses(r, k) ==
    UploadLoop(load_config(ShellStart(r.env), r.env),
               SubSeq(find(r.env.fs, r.a.SOURCE_DIR), 1, k), r.a, r.env)

\* the files of the directory that came to the transfer step
Reached(r, sh) ==
    {f \in Range(find(r.env.fs, r.a.SOURCE_DIR)) :
        Took(sh, StripPrefix(f.path, r.a.SOURCE_DIR), "upload")}

RECURSIVE SumOfSizes(_)
SumOfSizes(files) ==
    IF files = {} THEN 0
    ELSE LET f == CHOOSE g \in files : TRUE IN f.size + SumOfSizes(files \ {f})

\* the counters of a shell agree with the branches its passes took
CountersAgree(r, sh) ==
    /\ sh.file_count = sh.skip_count + Cardinality(Reached(r, sh))
    /\ sh.skip_count = Count(sh.log, SkipKinds)
    /\ sh.upload_count = (IF r.a.DRY_RUN THEN 0 ELSE Cardinality(Reached(r, sh)))
    /\ sh.total_size = SumOfSizes(Reached(r, sh))

\* C38: in an upload run, after each pass of the loop that the script comes
\* out of, and in the summary: file_count is skip_count plus the number of
\* files that came to the transfer step; upload_count is that number in a
\* live run and 0 in a dry run; total_size is the sum of the sizes of those
\* files.
CountersAddUp ==
    (Happened(run) /\ ~run.a.IMPORT_MODE)
    => /\ \A k \in 0..Len(find(run.env.fs, run.a.SOURCE_DIR)) :
             ~AfterPasses(run, k).exited => CountersAgree(run, AfterPasses(run, k))
       /\ run.sh.code = 0
          => /\ CountersAgree(run, run.sh)
             /\ includes(run.sh.out,
                         "sofairusu: " \o Decimal(run.sh.file_count) \o "\n"
                         \o "appurodo: " \o Decimal(run.sh.upload_count) \o "\n"
                         \o "sukippu: " \o Decimal(run.sh.skip_count) \o "\n"
                         \o "sosaizu: " \o SizeMB(run.sh.total_size) \o " MB\n")

\* a live upload that has skipped files and sent files has come to its
\* summary
CountersAddUpWitness ==
    /\ LiveUpload(run) /\ run.sh.code = 0
    /\ run.sh.skip_count >= 2 /\ run.sh.upload_count >= 2
    /\ run.sh.file_count = 5
    /\ run.sh.total_size > 0
    /\ ~AfterPasses(run, 3).exited /\ AfterPasses(run, 3).file_count = 3

====
